---- MODULE Spec2Model ----
(***************************************************************************)
(* trellis-shares: the 'share-user-link' job handler (src/src/index.ts),   *)
(* its destination resolver putLinkAndEnsureParent, and the document store *)
(* they talk to.                                                           *)
(*                                                                         *)
(* Strings that the code cuts and joins (paths, chroot) are sequences of   *)
(* tokens: the separator "/" and whole segment names.  No segment name of  *)
(* the model is a prefix of another, so a substring match on characters    *)
(* and one on tokens agree.                                                *)
(***************************************************************************)
EXTENDS Integers, Sequences, FiniteSets, TLC

VARIABLES
  wk,      \* per worker: the handler execution (position, locals, call stack)
  res,     \* the store: resource id -> [type, doc], the document held there
  meta,    \* the store: resource id -> its _meta document
  auths,   \* the store: the tokens posted to /authorizations
  emails,  \* the store: the email jobs linked into the abalonemail queue
  nextId,  \* the store's next fresh resource id
  faults   \* upstream faults injected so far

vars == <<wk, res, meta, auths, emails, nextId, faults>>
store == <<res, meta, auths, emails, nextId>>

(* ------------------------------ bounds -------------------------------- *)

\* executions of the same job (or resolver call) by one worker, in sequence
MaxRuns == 2
\* upstream (store) faults in one behaviour
MaxFaults == 1

(* ------------------------- strings and pointers ----------------------- *)

EmptyStr == <<>>

Last(s) == s[Len(s)]
Front(s) == SubSeq(s, 1, Len(s) - 1)

\* s.endsWith(suffix)
endsWith(s, suffix) ==
  /\ Len(s) >= Len(suffix)
  /\ SubSeq(s, Len(s) - Len(suffix) + 1, Len(s)) = suffix

\* s.replace(/\/$/, '')
stripTrailingSlash(s) == IF endsWith(s, <<"/">>) THEN Front(s) ELSE s

\* s.replace(/\/bookmarks$/, '')
stripBookmarks(s) ==
  IF endsWith(s, <<"/", "bookmarks">>) THEN SubSeq(s, 1, Len(s) - 2) ELSE s

\* s.replace(sub, ''): the first occurrence of sub is cut out of s; an empty
\* sub matches at the start and cuts nothing
replaceFirst(s, sub) ==
  LET hits == {i \in 1..(Len(s) - Len(sub) + 1) :
                 SubSeq(s, i, i + Len(sub) - 1) = sub}
  IN IF sub = EmptyStr \/ hits = {} THEN s
     ELSE LET i == CHOOSE j \in hits : \A k \in hits : j <= k
          IN SubSeq(s, 1, i - 1) \o SubSeq(s, i + Len(sub), Len(s))

\* jsonpointer.parse accepts '' and anything that starts with '/'
parseOk(s) == s = EmptyStr \/ Head(s) = "/"

RECURSIVE splitSlash(_)
\* the segments of the text that follows a "/"
splitSlash(s) ==
  IF s = <<>> THEN <<"">>
  ELSE IF Head(s) = "/" THEN <<"">> \o splitSlash(Tail(s))
  ELSE IF Len(s) = 1 THEN <<Head(s)>>
  ELSE <<Head(s)>> \o splitSlash(SubSeq(s, 3, Len(s)))

\* jsonpointer.parse(pointer), for a pointer parseOk accepts
parse(s) == IF s = EmptyStr THEN <<>> ELSE splitSlash(Tail(s))

RECURSIVE compile(_)
\* jsonpointer.compile(parts)
compile(parts) ==
  IF parts = <<>> THEN EmptyStr
  ELSE (IF Head(parts) = "" THEN <<"/">> ELSE <<"/", Head(parts)>>)
         \o compile(Tail(parts))

(* ------------------------------ documents ---------------------------- *)

\* A JSON document is a function from its leaf paths (sequences of keys) to
\* the leaf values; an empty object at a path is the leaf EmptyObj.
EmptyDoc == [p \in {} |-> ""]
EmptyObj == "{}"

restrict(doc, paths) == [p \in paths |-> doc[p]]

isPrefix(a, b) == Len(a) <= Len(b) /\ SubSeq(b, 1, Len(a)) = a

\* /^_/.exec(k): the keys of the model that start with "_"
InternalKeys == {"_id", "_rev", "_type", "_meta", "_valid", "_note", "_ref"}
isInternal(k) == k \in InternalKeys

\* _.keys(doc)
topKeys(doc) == {p[1] : p \in DOMAIN doc}

\* _.omitBy(doc, (_v, k) => /^_/.exec(k)): the top-level keys only
omitInternal(doc) == restrict(doc, {p \in DOMAIN doc : ~isInternal(p[1])})

\* _.pick(doc, paths): what doc holds at or below each path
pick(doc, paths) ==
  restrict(doc, {p \in DOMAIN doc : \E q \in paths : isPrefix(q, p)})

\* two paths of which one runs through the other
clash(p, q) == isPrefix(p, q) \/ isPrefix(q, p)

\* doc[path] = sub, an assignment: what was at or below path is replaced
setAt(doc, path, sub) ==
  LET kept == {p \in DOMAIN doc : ~clash(path, p)}
      added == {path \o q : q \in DOMAIN sub}
  IN [p \in kept \cup added |->
        IF p \in added THEN sub[SubSeq(p, Len(path) + 1, Len(p))] ELSE doc[p]]

\* a delete that leaves the key where it is
deleteAtNot(doc, path) == doc

\* delete doc[path]
deleteAt(doc, path) == restrict(doc, {p \in DOMAIN doc : ~isPrefix(path, p)})

\* _.has(doc, path)
hasAt(doc, path) == \E p \in DOMAIN doc : isPrefix(path, p)

\* the store's PUT of patch onto doc: a deep merge, the patch's leaves win
merge(doc, patch) ==
  LET kept == {p \in DOMAIN doc : \A q \in DOMAIN patch : ~clash(p, q)}
  IN [p \in kept \cup DOMAIN patch |-> IF p \in DOMAIN patch THEN patch[p] ELSE doc[p]]

\* the one-leaf document {path: value}
leaf(path, value) == [p \in {path} |-> value]

(* -------------------------------- store ------------------------------- *)

\* The store holds resources; a resource is a typed JSON document, and a link
\* is an object {_id, _rev?} at a key of it.  A path is followed from the
\* root resource key by key, through links into the resources they name.

Root == 0
NotFound == -1

StatusOk == 200
StatusNotFound == 404
\* the statuses a failing store answers with, other than 404
ErrStatuses == {403, 500}

isLink(doc, p) == (p \o <<"_id">>) \in DOMAIN doc

RECURSIVE walk(_, _, _, _)
\* where segs lead from the place `at` of resource id: the resource and place
\* reached, and the segments that were not found (none: the path resolves)
walk(r, id, at, segs) ==
  IF segs = <<>> \/ id \notin DOMAIN r THEN [id |-> id, at |-> at, rest |-> segs]
  ELSE LET p == at \o <<Head(segs)>>
       IN IF isLink(r[id].doc, p)
          THEN walk(r, r[id].doc[p \o <<"_id">>], <<>>, Tail(segs))
          ELSE IF hasAt(r[id].doc, p) THEN walk(r, id, p, Tail(segs))
          ELSE [id |-> id, at |-> at, rest |-> segs]

locate(r, path) == walk(r, Root, <<>>, parse(path))

\* the path leads somewhere
exists(r, path) ==
  parseOk(path) /\ locate(r, path).rest = <<>> /\ locate(r, path).id \in DOMAIN r

\* the path leads to a resource of its own (not to a place inside one)
isResource(r, path) == exists(r, path) /\ locate(r, path).at = <<>>

\* the resource a path leads to, or NotFound
resolve(r, path) == IF isResource(r, path) THEN locate(r, path).id ELSE NotFound

\* GET path: the status a healthy store answers with
getStatus(r, path) == IF exists(r, path) THEN StatusOk ELSE StatusNotFound

\* GET of a resource: its document and the keys the store adds
dataOf(r, id) ==
  merge(r[id].doc, [p \in {<<"_id">>, <<"_rev">>, <<"_type">>, <<"_meta", "_id">>} |->
                      IF p = <<"_type">> THEN r[id].type
                      ELSE IF p = <<"_rev">> THEN "rev" ELSE id])

\* POST /resources: a new resource with the given type and document
storePost(r, id, type, doc) == (id :> [type |-> type, doc |-> doc]) @@ r

\* the document {path: patch}
under(path, patch) == [p \in {path \o q : q \in DOMAIN patch} |->
                         patch[SubSeq(p, Len(path) + 1, Len(p))]]

\* PUT path patch: merged into the resource the path runs into, at the place
\* the path names there; the keys of the path that are missing are made
storePut(r, path, patch) ==
  LET l == locate(r, path)
  IN [r EXCEPT ![l.id].doc = merge(@, under(l.at \o l.rest, patch))]

(* ----------------------------- schema tree ---------------------------- *)

NoType == ""
\* a node's _rev as the tree states it: absent, 0 or 1
NoRev == "absent"

\* jsonpointer.get(tree, pointer) throws when a token is no key of the object
\* it has reached (the key '*' is a key like any other)
treeHas(tree, pointer) == parseOk(pointer) /\ parse(pointer) \in DOMAIN tree

\* if (_rev): a number other than 0 asks for a versioned link
truthyRev(rev) == rev \notin {NoRev, "0"}

\* the tree node of a missing parent: the lookup of lines 409-422 succeeds
treeOk(tree, path, chroot) ==
  LET p == replaceFirst(path, chroot)
  IN treeHas(tree, p) /\ tree[parse(p)]._type # NoType

treeNode(tree, path, chroot) == tree[parse(replaceFirst(path, chroot))]

(* ------------------------------- the job ------------------------------ *)

\* The properties of `config`, the module's convict object (config.ts), which
\* is what the name `config` of line 130 denotes: the handler destructures
\* job.config into dest, copy, versioned, tree and doctype and binds no
\* `config` of its own.
ConfigKeys == {"oada", "slack", "timeout", "email", "signing",
               "get", "set", "has", "load", "validate", "getProperties"}

\* lines 131-138: the chroot with no trailing slash and no trailing /bookmarks
normalizeChroot(chroot) == stripBookmarks(stripTrailingSlash(chroot))

\* lines 128-142: chroot and destpath as the handler computes them
chrootOf(job) ==
  IF "chroot" \in ConfigKeys THEN normalizeChroot(job.chroot) ELSE EmptyStr

destpathOf(job) ==
  IF "chroot" \in ConfigKeys THEN chrootOf(job) \o job.dest ELSE job.dest

\* a link that names no resource
srcLinkNone(orig) == [_id |-> NotFound]

\* lines 148-150: the link to the original
srcLink(orig) == [_id |-> orig[<<"_id">>]]

\* a handler that never pins the link
withVersionNever(link, versioned) == link

\* lines 309-311: a versioned job pins the link
withVersion(link, versioned) ==
  IF versioned THEN [_id |-> link._id, _rev |-> 0] ELSE link

\* a copy that keeps every key of the original
plainCopyAll(orig, original) == orig

\* a copy that takes an empty copy.original for an absent one
plainCopyEmptyIsAll(orig, original) ==
  LET typed == setAt(omitInternal(orig), <<"_type">>, leaf(<<>>, orig[<<"_type">>]))
  IN IF original.is /\ original.paths # {} THEN pick(typed, original.paths) ELSE typed

\* a copy that ignores copy.original
plainCopyUnprojected(orig, original) ==
  setAt(omitInternal(orig), <<"_type">>, leaf(<<>>, orig[<<"_type">>]))

\* lines 269-282: the content of a plain copy
plainCopy(orig, original) ==
  LET stripped == omitInternal(orig)
      typed == setAt(stripped, <<"_type">>, leaf(<<>>, orig[<<"_type">>]))
  IN IF original.is THEN pick(typed, original.paths) ELSE typed

\* every path into the document: the keys the recursion of findPathsToMask visits
prefixes(doc) == UNION {{SubSeq(p, 1, i) : i \in 1..Len(p)} : p \in DOMAIN doc}

\* a scan that stops at the top level
findPathsToMaskTop(object, keys) == {compile(<<k>>) : k \in topKeys(object) \cap keys}

\* findPathsToMask(object, keys_to_mask): the pointer to the first key of each
\* branch that is one of keys_to_mask (lines 582-613)
findPathsToMask(object, keys) ==
  {compile(q) : q \in {q \in prefixes(object) :
                          /\ Last(q) \in keys
                          /\ \A j \in 1..(Len(q) - 1) : q[j] \notin keys}}

\* what the masking library leaves at a masked path
Masked == "trellis-mask"

\* ml.maskAndSignRemoteResourceAsNewResource: the document with what is at
\* each pointer of paths replaced by a mask
maskDoc(doc, paths) ==
  LET qs == {parse(s) : s \in paths}
      kept == {p \in DOMAIN doc : \A q \in qs : ~isPrefix(q, p)}
      hit == {q \in qs : hasAt(doc, q)}
  IN [p \in kept \cup hit |-> IF p \in hit THEN Masked ELSE doc[p]]

MetaJobs == <<"services", "trellis-shares", "jobs">>
\* a count kept at the top of the source's _meta
MetaCountTop == <<"share-count">>
MetaCount == <<"services", "trellis-shares", "share-count">>

\* r.services['trellis-shares']['share-count'] or 0 (lines 336-343)
shareCountOf(m) == IF MetaCount \in DOMAIN m THEN m[MetaCount] ELSE 0

\* an increment that counts every share twice
incrementedTwice(shareCount) == shareCount + 2

\* a PUT that writes back the count it read
incrementedNot(shareCount) == shareCount

\* line 358: 'share-count': shareCount + 1
incremented(shareCount) == shareCount + 1

\* the job ids the framework hands out, per worker and execution
JobIds == <<<<"job11", "job12", "job13", "job14">>, <<"job21", "job22", "job23", "job24">>>>
jobId(w, run) == JobIds[w][run]

\* a token minted once and used by every execution
uuidOnce(w, run) == "tok"

\* uuidV4(): a fresh token per execution
Tokens == <<<<"tok11", "tok12", "tok13", "tok14">>, <<"tok21", "tok22", "tok23", "tok24">>>>
uuid(w, run) == Tokens[w][run]

(* ------------------------------ the worker ---------------------------- *)

Workers == DOMAIN wk

NoLink == [_id |-> NotFound]
NoCall == [path |-> EmptyStr, data |-> NoLink, chroot |-> EmptyStr, tree |-> EmptyDoc]

\* a worker before its first execution; mode "job" runs the handler, mode
\* "call" calls putLinkAndEnsureParent with the arguments of `call`
idle(mode, job, call) ==
  [pc |-> "idle", mode |-> mode, run |-> 0, job |-> job, call |-> call,
   stack |-> <<>>, log |-> <<>>, err |-> "", hist |-> <<>>,
   orig |-> EmptyDoc, srclink |-> NoLink, source |-> EmptyDoc, sourceOk |-> TRUE,
   mmeta |-> EmptyDoc, newId |-> NotFound, pdfFilename |-> EmptyStr,
   pdfId |-> NotFound, shareCount |-> 0, usertoken |-> "",
   destpath |-> EmptyStr, chroot |-> EmptyStr,
   created |-> {}, fea |-> 0, before |-> NoLink, startId |-> 0, countBefore |-> 0]

\* the locals of a new execution
fresh(me) ==
  [idle(me.mode, me.job, me.call) EXCEPT !.run = me.run + 1, !.hist = me.hist]

\* a request is sent: the line of its call, the method, the path and what
\* goes with it (the data sent, or the status or id that answers)
logReq(me, line, op, path, arg) ==
  [me EXCEPT !.log = Append(@, [line |-> line, op |-> op, path |-> path, arg |-> arg])]

\* lines 305 and 367: the config the handler returns, newid added by a copy
\* (NotFound: no newid)
resultOf(me) == [config |-> me.job, newid |-> me.newId]

outcome(me, ok) ==
  [ok |-> ok, err |-> me.err, link |-> me.srclink, newId |-> me.newId,
   created |-> me.created, result |-> resultOf(me)]

\* the handler returns job.config: the job succeeds
done(me) == [me EXCEPT !.pc = "done", !.hist = Append(@, outcome(me, TRUE))]

\* an error leaves the handler: the job fails
failed(me, kind) ==
  LET e == [me EXCEPT !.err = kind]
  IN [e EXCEPT !.pc = "failed", !.stack = <<>>, !.hist = Append(@, outcome(e, FALSE))]

canFault == faults < MaxFaults

(* ------------------------------ resolver ------------------------------ *)

\* a PUT whose body has the key and nothing of the link
linkDocEmpty(link) == EmptyDoc

\* the document of a link
linkDoc(link) ==
  [p \in {<<k>> : k \in DOMAIN link} |-> link[p[1]]]

\* the link held at a path, as a record
linkAt(r, path) ==
  LET parts == parse(path)
      l == locate(r, compile(Front(parts)))
      at == l.at \o <<Last(parts)>>
      d == r[l.id].doc
  IN IF (at \o <<"_rev">>) \in DOMAIN d
     THEN [_id |-> d[at \o <<"_id">>], _rev |-> d[at \o <<"_rev">>]]
     ELSE [_id |-> d[at \o <<"_id">>]]

\* a link is held at the path
hasLinkAt(r, path) ==
  LET parts == parse(path)
      l == locate(r, compile(Front(parts)))
  IN /\ parts # <<>> /\ l.rest = <<>> /\ l.id \in DOMAIN r
     /\ isLink(r[l.id].doc, l.at \o <<Last(parts)>>)

\* the link a path holds when an execution starts (NoLink: none)
linkBefore(r, path) == IF hasLinkAt(r, path) THEN linkAt(r, path) ELSE NoLink

\* the proper ancestors of a path, root first
ancestors(path) ==
  [k \in 1..Len(parse(path)) |-> compile(SubSeq(parse(path), 1, k - 1))]

\* the depth of the deepest proper ancestor of path that exists
feaOf(r, path) ==
  LET ds == {k \in 1..Len(parse(path)) : exists(r, ancestors(path)[k])}
  IN (CHOOSE k \in ds : \A j \in ds : j <= k) - 1

\* a call that takes the parent's parent for the parent
FrameTwoUp(path, data) ==
  LET parts == parse(path)
  IN [path |-> compile(IF Len(parts) > 1 THEN Front(Front(parts)) ELSE <<>>),
      key |-> Last(parts), data |-> data,
      st |-> "get", ctype |-> NoType, trev |-> NoRev]

\* a call that puts the link to the path itself
FrameSelf(path, data) ==
  [path |-> path, key |-> Last(parse(path)), data |-> data,
   st |-> "get", ctype |-> NoType, trev |-> NoRev]

\* the locals of one call of putLinkAndEnsureParent({path, data, ...}),
\* lines 387-391; st is the request the call waits for
Frame(path, data) ==
  LET parts == parse(path)
  IN [path |-> compile(Front(parts)), key |-> Last(parts), data |-> data,
      st |-> "get", ctype |-> NoType, trev |-> NoRev]

top(w) == wk[w].stack[Len(wk[w].stack)]

setTop(me, f) == [me.stack EXCEPT ![Len(me.stack)] = f]

\* Link of lines 437-440
newLink(id, rev) == IF truthyRev(rev) THEN [_id |-> id, _rev |-> 0] ELSE [_id |-> id]

\* a resolver that takes every failed probe for a missing parent
isMissingNot200(status) == status # StatusOk
isMissingOrError(status) == status \in {StatusNotFound} \cup ErrStatuses

\* line 403: the parent is taken to be missing
isMissing(status) == status = StatusNotFound

\* line 316 (and the call of a test harness): the first call
callResolver(me, args) ==
  IF ~parseOk(args.path) THEN failed(me, "pointer")
  ELSE [me EXCEPT !.pc = "resolve", !.call = args,
                  !.stack = <<Frame(args.path, args.data)>>,
                  !.created = {}, !.fea = feaOf(res, args.path)]

\* lines 394-423: the probe of the parent answers; when the parent is missing
\* the tree is asked for its type and the POST is sent
probe(w) ==
  /\ wk[w].pc = "resolve"
  /\ top(w).st = "get"
  /\ \E status \in {getStatus(res, top(w).path)}
                     \cup (IF canFault THEN ErrStatuses ELSE {}) :
       LET f == top(w)
           c == wk[w].call
           me == logReq(wk[w], 394, "GET", f.path, status)
       IN /\ faults' = IF status \in ErrStatuses THEN faults + 1 ELSE faults
          /\ wk' = [wk EXCEPT ![w] =
               IF isMissing(status)
               THEN IF treeOk(c.tree, f.path, c.chroot)
                    THEN LET n == treeNode(c.tree, f.path, c.chroot)
                         IN [me EXCEPT !.stack = setTop(me,
                               [f EXCEPT !.st = "post", !.ctype = n._type, !.trev = n._rev])]
                    ELSE failed(me, "config")
               ELSE [me EXCEPT !.stack = setTop(me, [f EXCEPT !.st = "put"])]]
  /\ UNCHANGED store

\* lines 425-446: the POST answers with the new resource; the call recurses
\* to link it under the parent's parent
post(w) ==
  /\ wk[w].pc = "resolve"
  /\ top(w).st = "post"
  /\ LET f == top(w)
         me == logReq(wk[w], 425, "POST", <<"/", "resources">>, f.ctype)
     IN \/ /\ res' = storePost(res, nextId, f.ctype, EmptyDoc)
           /\ meta' = (nextId :> EmptyDoc) @@ meta
           /\ nextId' = nextId + 1
           /\ wk' = [wk EXCEPT ![w] =
                [me EXCEPT !.created = @ \cup {nextId},
                           !.stack = Append(setTop(me, [f EXCEPT !.st = "put"]),
                                            Frame(f.path, newLink(nextId, f.trev)))]]
           /\ UNCHANGED <<auths, emails, faults>>
        \/ /\ canFault
           /\ faults' = faults + 1
           /\ wk' = [wk EXCEPT ![w] = failed(me, "upstream")]
           /\ UNCHANGED store

\* a handler that notifies the partner before it counts the share
returnedToNotify(me) ==
  IF me.mode = "job" /\ ~me.job.skipCreatingEmailJobs
  THEN [me EXCEPT !.pc = "postauth", !.stack = <<>>, !.usertoken = uuid(1, me.run)]
  ELSE IF me.mode = "job" THEN [me EXCEPT !.pc = "getcount", !.stack = <<>>]
  ELSE done([me EXCEPT !.stack = <<>>])

\* what follows `await putLinkAndEnsureParent` in the caller: the handler
\* asks for the share count (line 331); a direct call is over
returned(me) ==
  IF me.mode = "job" THEN [me EXCEPT !.pc = "getcount", !.stack = <<>>]
  ELSE done([me EXCEPT !.stack = <<>>])

\* line 455: the PUT of {linkkey: data} to the parent answers
put(w) ==
  /\ wk[w].pc = "resolve"
  /\ top(w).st = "put"
  /\ LET f == top(w)
         me == logReq(wk[w], 455, "PUT", f.path, <<f.key, f.data>>)
     IN \/ /\ res' = storePut(res, f.path, under(<<f.key>>, linkDoc(f.data)))
           /\ wk' = [wk EXCEPT ![w] =
                IF Len(me.stack) = 1 THEN returned(me)
                ELSE [me EXCEPT !.stack = Front(me.stack)]]
           /\ UNCHANGED <<meta, auths, emails, nextId, faults>>
        \/ /\ canFault
           /\ faults' = faults + 1
           /\ wk' = [wk EXCEPT ![w] = failed(me, "upstream")]
           /\ UNCHANGED store

\* a harness calls putLinkAndEnsureParent with the arguments it was given
callDirect(w) ==
  /\ wk[w].mode = "call"
  /\ wk[w].pc \in {"idle", "done", "failed"}
  /\ wk[w].run < MaxRuns
  /\ wk' = [wk EXCEPT ![w] =
       callResolver([fresh(wk[w]) EXCEPT !.before = linkBefore(res, wk[w].call.path),
                                         !.startId = nextId],
                    wk[w].call)]
  /\ UNCHANGED <<store, faults>>

(* ------------------------------ the handler --------------------------- *)

metaPath(base, sub) == base \o <<"/", "_meta">> \o compile(sub)
\* `/${id}`: the resource itself; the id is logged beside the path
idPath == <<"/", ":id">>

\* the job's src, or what `${job.config?.src}` gives without a config
srcOf(job) == IF job.hasConfig THEN job.src ELSE <<"undefined">>

\* a handler that does not call the resolver
linkItNot(me) ==
  [me EXCEPT !.pc = "getcount", !.srclink = withVersion(me.srclink, me.job.versioned)]

\* lines 308-322: the link is versioned and the resolver called
linkIt(me) ==
  LET link == withVersion(me.srclink, me.job.versioned)
  IN callResolver([me EXCEPT !.srclink = link],
                  [path |-> me.destpath, data |-> link, chroot |-> me.chroot,
                   tree |-> me.job.tree])

\* the share count a source has in the store (0: none, or no such source)
countAt(r, m, src) ==
  IF resolve(r, src) = NotFound THEN 0 ELSE shareCountOf(m[resolve(r, src)])

\* the framework hands the job to the handler, which sends its first PUT (line 99)
startJob(w) ==
  /\ wk[w].mode = "job"
  /\ wk[w].pc \in {"idle", "done", "failed"}
  /\ wk[w].run < MaxRuns
  /\ wk' = [wk EXCEPT ![w] =
       [fresh(wk[w]) EXCEPT !.pc = "linkjob", !.startId = nextId,
                            !.before = linkBefore(res, destpathOf(wk[w].job)),
                            !.countBefore = countAt(res, meta, wk[w].job.src)]]
  /\ UNCHANGED <<store, faults>>

\* lines 99-147: the job is linked under the source's _meta; the config is
\* checked, the destination computed and the source asked for
linkJob(w) ==
  /\ wk[w].pc = "linkjob"
  /\ LET j == wk[w].job
         id == resolve(res, j.src)
         me == logReq(wk[w], 99, "PUT", metaPath(srcOf(j), MetaJobs), jobId(w, wk[w].run))
     IN \/ /\ j.hasConfig /\ id # NotFound
           /\ meta' = [meta EXCEPT ![id] =
                merge(@, leaf(MetaJobs \o <<jobId(w, wk[w].run), "_ref">>, jobId(w, wk[w].run)))]
           /\ wk' = [wk EXCEPT ![w] =
                [me EXCEPT !.pc = "getsrc", !.destpath = destpathOf(j), !.chroot = chrootOf(j)]]
           /\ UNCHANGED <<res, auths, emails, nextId, faults>>
        \/ \* the store took the PUT to undefined/_meta/...: line 111 throws
           /\ ~j.hasConfig
           /\ wk' = [wk EXCEPT ![w] = failed(me, "Job has no config")]
           /\ UNCHANGED <<store, faults>>
        \/ \* the store refused the PUT
           /\ canFault \/ ~j.hasConfig \/ id = NotFound
           /\ faults' = IF j.hasConfig /\ id # NotFound THEN faults + 1 ELSE faults
           /\ wk' = [wk EXCEPT ![w] = failed(me, "upstream")]
           /\ UNCHANGED store

\* lines 145-156 (and 308-322 without copy): the source arrives
getSrc(w) ==
  /\ wk[w].pc = "getsrc"
  /\ LET j == wk[w].job
         id == resolve(res, j.src)
         me == logReq(wk[w], 145, "GET", j.src, "")
     IN \/ /\ id # NotFound
           /\ LET orig == dataOf(res, id)
                  got == [me EXCEPT !.orig = orig, !.srclink = srcLink(orig), !.source = orig]
              IN wk' = [wk EXCEPT ![w] =
                   IF j.copy.is THEN [got EXCEPT !.pc = "getmeta"] ELSE linkIt(got)]
           /\ UNCHANGED <<store, faults>>
        \/ /\ canFault \/ id = NotFound
           /\ faults' = IF id # NotFound THEN faults + 1 ELSE faults
           /\ wk' = [wk EXCEPT ![w] = failed(me, "upstream")]
           /\ UNCHANGED store

\* lines 168-176: the metadata the copy keeps
pickMeta(m, proj) == IF proj.is THEN pick(m, proj.paths) ELSE m

\* lines 156-206 and 265-289: the source's _meta arrives; a masked copy asks
\* for the original PDF's filename or for the mask, a plain copy is posted
getMeta(w) ==
  /\ wk[w].pc = "getmeta"
  /\ LET j == wk[w].job
         id == wk[w].orig[<<"_id">>]
         me == logReq(wk[w], 156, "GET", metaPath(j.src, <<>>), "")
         m == pickMeta(meta[id], j.copy.meta)
     IN \/ /\ wk' = [wk EXCEPT ![w] =
                IF j.copy.mask.is
                THEN IF hasAt(m, <<"vdoc", "pdf">>)
                     THEN [me EXCEPT !.pc = "getpdfmeta", !.mmeta = m]
                     ELSE [me EXCEPT !.pc = "mask", !.mmeta = m]
                ELSE [me EXCEPT !.pc = "postcopy", !.mmeta = omitInternal(m),
                                !.source = plainCopy(me.orig, j.copy.original)]]
           /\ UNCHANGED <<store, faults>>
        \/ /\ canFault
           /\ faults' = faults + 1
           /\ wk' = [wk EXCEPT ![w] = failed(me, "upstream")]
           /\ UNCHANGED store

\* lines 188-205: the filename of the original's PDF arrives, or does not;
\* the link to that PDF leaves the copy's metadata
getPdfMeta(w) ==
  /\ wk[w].pc = "getpdfmeta"
  /\ LET m == wk[w].mmeta
         ok == <<"vdoc", "pdf", "_id">> \in DOMAIN m
         pdf == IF ok THEN m[<<"vdoc", "pdf", "_id">>] ELSE NotFound
         me == logReq(wk[w], 188, "GET", metaPath(idPath, <<>>), pdf)
         next == [me EXCEPT !.pc = "mask", !.mmeta = deleteAt(m, <<"vdoc", "pdf">>)]
     IN \/ /\ pdf \in DOMAIN meta
           /\ wk' = [wk EXCEPT ![w] =
                [next EXCEPT !.pdfFilename =
                   <<"MASKED-", IF <<"filename">> \in DOMAIN meta[pdf]
                                THEN meta[pdf][<<"filename">>] ELSE "undefined">>]]
           /\ UNCHANGED <<store, faults>>
        \/ /\ canFault \/ pdf \notin DOMAIN meta
           /\ faults' = IF pdf \in DOMAIN meta THEN faults + 1 ELSE faults
           /\ wk' = [wk EXCEPT ![w] = next]
           /\ UNCHANGED store

\* a handler that links the copy without writing its metadata
finishCopyUnwritten(me) == linkIt([me EXCEPT !.srclink = [_id |-> me.newId]])

\* a handler without line 293
finishCopyKeep(me) == [me EXCEPT !.pc = "putmeta"]

\* line 293 and the PUT of line 300: the copy's metadata names the original
finishCopy(me) ==
  [me EXCEPT !.pc = "putmeta",
             !.mmeta = setAt(@, <<"copy">>, leaf(<<"src", "_ref">>, me.orig[<<"_id">>]))]

\* lines 213-223: the masking library answers with the masked copy's id
mask(w) ==
  /\ wk[w].pc = "mask"
  /\ LET j == wk[w].job
         id == wk[w].orig[<<"_id">>]
         paths == findPathsToMask(wk[w].orig, j.copy.mask.keys)
         me == logReq(wk[w], 213, "MASK", idPath, paths)
     IN \/ /\ res' = storePost(res, nextId, res[id].type, maskDoc(res[id].doc, paths))
           /\ meta' = (nextId :> EmptyDoc) @@ meta
           /\ nextId' = nextId + 1
           /\ wk' = [wk EXCEPT ![w] = [me EXCEPT !.pc = "refetch", !.newId = nextId]]
           /\ UNCHANGED <<auths, emails, faults>>
        \/ /\ canFault
           /\ faults' = faults + 1
           /\ wk' = [wk EXCEPT ![w] = failed(me, "upstream")]
           /\ UNCHANGED store

\* lines 222-261: the masked copy arrives (or the GET fails and is logged);
\* the metadata names the copy as its source and says it is masked
refetch(w) ==
  /\ wk[w].pc = "refetch"
  /\ LET j == wk[w].job
         me == logReq(wk[w], 222, "GET", idPath, wk[w].newId)
         after(m) ==
           LET n == [m EXCEPT !.mmeta = setAt(@, <<"copy">>,
                       leaf(<<"src", "_ref">>, m.newId) @@ leaf(<<"masked">>, TRUE))]
           IN IF j.copy.mask.pdf THEN [n EXCEPT !.pc = "pdf"] ELSE finishCopy(n)
     IN \/ /\ wk' = [wk EXCEPT ![w] =
                after([me EXCEPT !.source = dataOf(res, me.newId), !.sourceOk = TRUE])]
           /\ UNCHANGED <<store, faults>>
        \/ /\ canFault
           /\ faults' = faults + 1
           /\ wk' = [wk EXCEPT ![w] =
                after([me EXCEPT !.source = EmptyDoc, !.sourceOk = FALSE])]
           /\ UNCHANGED store

\* pullData (pdfgen.ts 231-240) reads fields of `masked` for the two doctypes
\* it knows, which throws when the masked copy never arrived
renderThrows(me) == ~me.sourceOk /\ me.job.doctype \in {"cois", "fsqa-audits"}

\* pdfgen.ts line 80: the filename given, or a generated one
pdfName(filename) == IF filename = EmptyStr THEN <<"TrellisMaskAndLink-", "ksuid">> ELSE filename

\* a PDF without the link to the masked resource
pdfDocBlank(id) == EmptyDoc

\* pdfgen.ts lines 163-173: the PDF's last pages carry a link to the masked
\* resource it was rendered from
pdfDoc(id) == leaf(<<"masked-resource-url">>, id)

\* pdfgen.ts lines 207-223: what is put to the PDF's _meta
pdfMeta(filename) == leaf(<<"filename">>, pdfName(filename))

\* a handler that does not link the PDF
setPdfKeep(me, id) == finishCopy([me EXCEPT !.pdfId = id])

\* a makeAndPostMaskedPdf whose failure leaves it as an error
setPdfOrThrow(me, id) ==
  IF id = NotFound THEN failed(me, "pdf")
  ELSE finishCopy([me EXCEPT !.pdfId = id,
                             !.mmeta = setAt(@, <<"vdoc", "pdf">>, leaf(<<"_id">>, id))])

\* a serialisation that keeps the _id of a PDF that was not made
setPdfNull(me, id) ==
  finishCopy([me EXCEPT !.pdfId = id,
                        !.mmeta = setAt(@, <<"vdoc", "pdf">>, leaf(<<"_id">>, id))])

\* lines 250-254 and 293: the PDF's id goes into the copy's metadata
setPdf(me, id) ==
  finishCopy([me EXCEPT !.pdfId = id,
                        !.mmeta = setAt(@, <<"vdoc", "pdf">>,
                                        IF id = NotFound THEN leaf(<<>>, EmptyObj)
                                        ELSE leaf(<<"_id">>, id))])

\* lines 238-254, makeAndPostMaskedPdf (pdfgen.ts 59-229): the PDF is rendered,
\* posted and given its filename; whatever fails only costs the id
pdf(w) ==
  /\ wk[w].pc = "pdf"
  /\ LET me == logReq(wk[w], 238, "PDF", idPath, wk[w].newId)
     IN \/ /\ ~renderThrows(me)
           /\ res' = storePost(res, nextId, "application/pdf", pdfDoc(me.newId))
           /\ meta' = (nextId :> pdfMeta(me.pdfFilename)) @@ meta
           /\ nextId' = nextId + 1
           /\ wk' = [wk EXCEPT ![w] = setPdf(me, nextId)]
           /\ UNCHANGED <<auths, emails, faults>>
        \/ \* the rendering or the POST failed
           /\ canFault \/ renderThrows(me)
           /\ faults' = IF renderThrows(me) THEN faults ELSE faults + 1
           /\ wk' = [wk EXCEPT ![w] = setPdf(me, NotFound)]
           /\ UNCHANGED store
        \/ \* the PUT of the filename failed
           /\ canFault /\ ~renderThrows(me)
           /\ res' = storePost(res, nextId, "application/pdf", pdfDoc(me.newId))
           /\ meta' = (nextId :> EmptyDoc) @@ meta
           /\ nextId' = nextId + 1
           /\ faults' = faults + 1
           /\ wk' = [wk EXCEPT ![w] = setPdf(me, NotFound)]
           /\ UNCHANGED <<auths, emails>>

\* the type the store gives a document posted without a content type
typeOf(doc) == IF <<"_type">> \in DOMAIN doc THEN doc[<<"_type">>] ELSE NoType

\* lines 285-293: the POST of the plain copy answers with its id
postCopy(w) ==
  /\ wk[w].pc = "postcopy"
  /\ LET me == logReq(wk[w], 286, "POST", <<"/", "resources">>, wk[w].source)
     IN \/ /\ res' = storePost(res, nextId, typeOf(me.source), deleteAt(me.source, <<"_type">>))
           /\ meta' = (nextId :> EmptyDoc) @@ meta
           /\ nextId' = nextId + 1
           /\ wk' = [wk EXCEPT ![w] = finishCopy([me EXCEPT !.newId = nextId])]
           /\ UNCHANGED <<auths, emails, faults>>
        \/ /\ canFault
           /\ faults' = faults + 1
           /\ wk' = [wk EXCEPT ![w] = failed(me, "upstream")]
           /\ UNCHANGED store

\* a handler that leaves the link on the original
copyLinkStale(me) == me.srclink

\* a handler that links the copy an earlier execution of the job made
copyLinkFirst(me) ==
  [_id |-> IF me.hist # <<>> /\ me.hist[1].ok THEN me.hist[1].newId ELSE me.newId]

\* line 303: the link is reset to point to the copy
copyLink(me) == [_id |-> me.newId]

\* lines 300-322: the copy's metadata is written; the link now names the copy
putMeta(w) ==
  /\ wk[w].pc = "putmeta"
  /\ LET me == logReq(wk[w], 300, "PUT", metaPath(idPath, <<>>), <<wk[w].newId, wk[w].mmeta>>)
     IN \/ /\ meta' = [meta EXCEPT ![me.newId] = merge(@, me.mmeta)]
           /\ wk' = [wk EXCEPT ![w] = linkIt([me EXCEPT !.srclink = copyLink(me)])]
           /\ UNCHANGED <<res, auths, emails, nextId, faults>>
        \/ /\ canFault
           /\ faults' = faults + 1
           /\ wk' = [wk EXCEPT ![w] = failed(me, "upstream")]
           /\ UNCHANGED store

(* ------------------- share count and notification --------------------- *)

\* lines 331-349: the source's _meta arrives and the count is read off it
getCount(w) ==
  /\ wk[w].pc = "getcount"
  /\ LET j == wk[w].job
         id == resolve(res, j.src)
         me == logReq(wk[w], 331, "GET", metaPath(j.src, <<>>), "")
     IN \/ /\ wk' = [wk EXCEPT ![w] =
                [me EXCEPT !.pc = "putcount",
                           !.shareCount = IF id = NotFound THEN 0 ELSE shareCountOf(meta[id])]]
           /\ UNCHANGED <<store, faults>>
        \/ \* a status other than 404
           /\ canFault
           /\ faults' = faults + 1
           /\ wk' = [wk EXCEPT ![w] = failed(me, "upstream")]
           /\ UNCHANGED store

\* config.chroot?.replace(/^.*trading-partners\/([^/]+)\/.*$/, '$1') (line 464)
tpIdOf(chroot) ==
  LET hits == {i \in 1..(Len(chroot) - 3) :
                 /\ chroot[i] = "trading-partners" /\ chroot[i + 1] = "/"
                 /\ chroot[i + 2] # "/" /\ chroot[i + 3] = "/"}
  IN IF hits = {} THEN chroot
     ELSE <<chroot[(CHOOSE i \in hits : \A k \in hits : k <= i) + 2]>>

\* the switch of lines 500-536: the list asked for and the subject
Notices ==
  [d \in {"cois", "letters-of-guarantee", "fsqa-certificates", "fsqa-audits"} |->
     IF d = "cois"
     THEN [list |-> "coi-emails", subject |-> "New certificate of insurance available"]
     ELSE IF d = "letters-of-guarantee"
     THEN [list |-> "coi-emails", subject |-> "New letter of guarantee available"]
     ELSE IF d = "fsqa-certificates"
     THEN [list |-> "fsqa-emails", subject |-> "New FSQA certificate available"]
     ELSE [list |-> "fsqa-emails", subject |-> "New FSQA Audit available"]]

\* lines 498-499: `emails` and `subject` before the switch
NoNotice == [list |-> "", subject |-> ""]

\* a switch that takes every other doctype for a certificate of insurance
noticeFallback(doctype) ==
  IF doctype \in DOMAIN Notices THEN Notices[doctype] ELSE Notices["cois"]

\* a switch that reads the two lists the other way round
noticeSwapped(doctype) ==
  IF doctype \notin DOMAIN Notices THEN NoNotice
  ELSE [Notices[doctype] EXCEPT !.list = IF @ = "coi-emails" THEN "fsqa-emails" ELSE "coi-emails"]

\* the case of the switch that a doctype takes; NoNotice: the default, which throws
notice(doctype) == IF doctype \in DOMAIN Notices THEN Notices[doctype] ELSE NoNotice

\* the trading partners of the store and their address lists
Partners == {"T1", "T2"}
emailsOf(tp, list) == <<list, "@", tp>>

\* lines 351-365: the count is put back one higher; the handler returns or
\* goes on to createEmailJobs
putCount(w) ==
  /\ wk[w].pc = "putcount"
  /\ LET j == wk[w].job
         id == resolve(res, j.src)
         me == logReq(wk[w], 356, "PUT", metaPath(j.src, <<"services", "trellis-shares">>),
                      incremented(wk[w].shareCount))
     IN \/ /\ id # NotFound
           /\ meta' = [meta EXCEPT ![id] = merge(@, leaf(MetaCount, incremented(me.shareCount)))]
           /\ wk' = [wk EXCEPT ![w] =
                IF j.skipCreatingEmailJobs THEN done(me)
                ELSE [me EXCEPT !.pc = "postauth", !.usertoken = uuid(w, me.run)]]
           /\ UNCHANGED <<res, auths, emails, nextId, faults>>
        \/ /\ canFault \/ id = NotFound
           /\ faults' = IF id # NotFound THEN faults + 1 ELSE faults
           /\ wk' = [wk EXCEPT ![w] = failed(me, "upstream")]
           /\ UNCHANGED store

\* lines 472-536: the authorization is posted; the doctype picks the list
postAuth(w) ==
  /\ wk[w].pc = "postauth"
  /\ LET j == wk[w].job
         me == logReq(wk[w], 485, "POST", <<"/", "authorizations">>, wk[w].usertoken)
     IN \/ /\ auths' = auths \cup {[token |-> me.usertoken, user |-> j.user]}
           /\ wk' = [wk EXCEPT ![w] =
                IF notice(j.doctype) # NoNotice THEN [me EXCEPT !.pc = "getemails"]
                ELSE failed(me, "doctype")]
           /\ UNCHANGED <<res, meta, emails, nextId, faults>>
        \/ /\ canFault
           /\ faults' = faults + 1
           /\ wk' = [wk EXCEPT ![w] = failed(me, "upstream")]
           /\ UNCHANGED store

\* the path of the address list (lines 502-528)
listPath(job) ==
  <<"/", "bookmarks", "/", "trellisfw", "/", "trading-partners", "/">>
    \o (IF "chroot" \in job.has THEN tpIdOf(job.chroot) ELSE <<"undefined">>) \o <<"/", notice(job.doctype).list>>

\* lines 500-536: the address list of the trading partner arrives
getEmails(w) ==
  /\ wk[w].pc = "getemails"
  /\ LET j == wk[w].job
         known == \E tp \in Partners : tpIdOf(j.chroot) = <<tp>>
         me == logReq(wk[w], 503, "GET", listPath(j), "")
     IN \/ /\ known
           /\ wk' = [wk EXCEPT ![w] = [me EXCEPT !.pc = "postemail"]]
           /\ UNCHANGED <<store, faults>>
        \/ /\ canFault \/ ~known
           /\ faults' = IF known THEN faults + 1 ELSE faults
           /\ wk' = [wk EXCEPT ![w] = failed(me, "upstream")]
           /\ UNCHANGED store

\* lines 538-564: the email job is posted
postEmail(w) ==
  /\ wk[w].pc = "postemail"
  /\ LET j == wk[w].job
         n == notice(j.doctype)
         mail == [id |-> nextId, to |-> emailsOf(tpIdOf(j.chroot)[1], n.list),
                  subject |-> n.subject, token |-> wk[w].usertoken, linked |-> FALSE]
         me == logReq(wk[w], 541, "POST", <<"/", "resources">>, mail)
     IN \/ /\ res' = storePost(res, nextId, "application/json", EmptyDoc)
           /\ meta' = (nextId :> EmptyDoc) @@ meta
           /\ emails' = emails \cup {mail}
           /\ nextId' = nextId + 1
           /\ wk' = [wk EXCEPT ![w] = [me EXCEPT !.pc = "linkemail"]]
           /\ UNCHANGED <<auths, faults>>
        \/ /\ canFault
           /\ faults' = faults + 1
           /\ wk' = [wk EXCEPT ![w] = failed(me, "upstream")]
           /\ UNCHANGED store

\* lines 567-573: the email job is linked into the abalonemail queue
linkEmail(w) ==
  /\ wk[w].pc = "linkemail"
  /\ LET mine == {m \in emails : m.token = wk[w].usertoken /\ ~m.linked}
         me == logReq(wk[w], 570, "PUT",
                      <<"/", "bookmarks", "/", "services", "/", "abalonemail", "/", "jobs">>, "")
     IN \/ /\ emails' = (emails \ mine) \cup {[m EXCEPT !.linked = TRUE] : m \in mine}
           /\ wk' = [wk EXCEPT ![w] = done(me)]
           /\ UNCHANGED <<res, meta, auths, nextId, faults>>
        \/ /\ canFault
           /\ faults' = faults + 1
           /\ wk' = [wk EXCEPT ![w] = failed(me, "upstream")]
           /\ UNCHANGED store

(* ------------------------------- inputs ------------------------------- *)

node(type, rev) == [_type |-> type, _rev |-> rev]

\* schema trees over the destination /p/q/coi1, rooted at the destination's root
TreeFull ==
  (<<>> :> node(NoType, NoRev)) @@ (<<"p">> :> node("type.p", "0"))
    @@ (<<"p", "q">> :> node("type.q", "1"))
TreeWild ==
  (<<>> :> node(NoType, NoRev)) @@ (<<"p">> :> node("type.p", NoRev))
    @@ (<<"p", "*">> :> node("type.any", NoRev))
TreeNoType ==
  (<<>> :> node(NoType, NoRev)) @@ (<<"p">> :> node("type.p", NoRev))
    @@ (<<"p", "q">> :> node(NoType, NoRev))
TreeNoEntry ==
  (<<>> :> node(NoType, NoRev)) @@ (<<"p">> :> node("type.p", NoRev))
Trees == {TreeFull, TreeWild, TreeNoType, TreeNoEntry}

Dests == {<<"/", "p", "/", "coi1">>, <<"/", "p", "/", "q", "/", "coi1">>}

SrcPath == <<"/", "a", "/", "coi1">>

\* the source document
SrcDoc ==
  (<<"holder", "name">> :> "Acme") @@ (<<"holder", "_note">> :> "n")
    @@ (<<"producer", "name">> :> "Bob") @@ (<<"_valid">> :> "yes")
    @@ (<<"items", "0", "name">> :> "Item") @@ (<<"items", "0", "qty">> :> "1")

\* the source's _meta, with or without a link to a PDF of the original
SrcMeta(withPdf) ==
  IF withPdf
  THEN (<<"vdoc", "pdf", "_id">> :> 3) @@ (<<"_rev">> :> "rev") @@ (<<"stats">> :> "s")
  ELSE (<<"_rev">> :> "rev") @@ (<<"stats">> :> "s")

\* The store before the job: the root (0), the directory /a (1) with the
\* source /a/coi1 (2), a PDF of the source (3), and a chain of resources
\* along `pre`, the part of the destination's ancestors that exists already.
initRes(pre) ==
  [i \in 0..(3 + Len(pre)) |->
     IF i = 0 THEN [type |-> "type.root",
                    doc |-> IF pre = <<>> THEN leaf(<<"a", "_id">>, 1)
                            ELSE leaf(<<"a", "_id">>, 1) @@ leaf(<<pre[1], "_id">>, 4)]
     ELSE IF i = 1 THEN [type |-> "type.dir",
                         doc |-> leaf(<<"coi1", "_id">>, 2) @@ leaf(<<"coi1", "_rev">>, 0)]
     ELSE IF i = 2 THEN [type |-> "type.coi", doc |-> SrcDoc]
     ELSE IF i = 3 THEN [type |-> "application/pdf", doc |-> EmptyDoc]
     ELSE [type |-> "type.pre",
           doc |-> IF i - 3 < Len(pre) THEN leaf(<<pre[i - 2], "_id">>, i + 1)
                   ELSE EmptyDoc]]

initMeta(pre, withPdf) ==
  [i \in 0..(3 + Len(pre)) |->
     IF i = 2 THEN SrcMeta(withPdf)
     ELSE IF i = 3 THEN leaf(<<"filename">>, "coi.pdf")
     ELSE EmptyDoc]

initStore(pre, withPdf) ==
  /\ res = initRes(pre)
  /\ meta = initMeta(pre, withPdf)
  /\ auths = {}
  /\ emails = {}
  /\ nextId = 4 + Len(pre)
  /\ faults = 0

NoProj == [is |-> FALSE, paths |-> {}]
NoMask == [is |-> FALSE, keys |-> {}, pdf |-> FALSE]
NoCopy == [is |-> FALSE, original |-> NoProj, meta |-> NoProj, mask |-> NoMask]

\* the job of the README: a link of /a/coi1 at /p/q/coi1, no chroot
BaseJob ==
  [hasConfig |-> TRUE, src |-> SrcPath, dest |-> <<"/", "p", "/", "q", "/", "coi1">>,
   has |-> {}, chroot |-> EmptyStr, versioned |-> FALSE, tree |-> TreeFull,
   copy |-> NoCopy, doctype |-> "cois", skipCreatingEmailJobs |-> TRUE,
   user |-> "user1"]

\* the parts of a path's proper ancestors, shortest first
prefixesOf(segs) == {SubSeq(segs, 1, k) : k \in 0..Len(segs)}

(* ------------------------------ the jobs ------------------------------ *)

Proj(paths) == [is |-> TRUE, paths |-> paths]

\* copy: {original: true}
CopyPlain == [NoCopy EXCEPT !.is = TRUE]
\* copy: {original: {holder: true}, meta: {stats: true}}
CopyProj == [CopyPlain EXCEPT !.original = Proj({<<"holder">>}), !.meta = Proj({<<"stats">>})]
\* copy: {original: {_type: true, producer: {name: true}}}
CopyProjType == [CopyPlain EXCEPT !.original = Proj({<<"_type">>, <<"producer", "name">>})]
\* copy: {original: {}}
CopyEmpty == [CopyPlain EXCEPT !.original = Proj({})]
\* copy: {mask: {keys_to_mask: ['name']}}
CopyMask == [CopyPlain EXCEPT !.mask = [is |-> TRUE, keys |-> {"name"}, pdf |-> FALSE]]
\* copy: {original: {holder: {name: true}, _valid: true, absent: true}}
CopyProjLeaves ==
  [CopyPlain EXCEPT !.original = Proj({<<"holder", "name">>, <<"_valid">>, <<"absent">>})]
\* copy: {mask: {keys_to_mask: ['holder', 'name']}}
CopyMaskHolder ==
  [CopyPlain EXCEPT !.mask = [is |-> TRUE, keys |-> {"holder", "name"}, pdf |-> FALSE]]
\* copy: {mask: {keys_to_mask: ['name'], generate_pdf: true}}
CopyMaskPdf == [CopyPlain EXCEPT !.mask = [is |-> TRUE, keys |-> {"name"}, pdf |-> TRUE]]

\* copy: {mask: {keys_to_mask: ['name']}, meta: {vdoc: {pdf: true}, stats: true}}
CopyMaskMeta == [CopyMask EXCEPT !.meta = Proj({<<"vdoc", "pdf">>, <<"stats">>})]

\* chroots a job may give
TpChrootOf(tp) == <<"/", "bookmarks", "/", "trellisfw", "/", "trading-partners", "/", tp,
                    "/", "user", "/", "bookmarks">>
TpChroot == TpChrootOf("T1")
JChroots == {<<"/", "x", "/", "bookmarks">>, <<"/", "x", "/">>, TpChroot}

\* links: every destination, tree and versioned flag
JobsLink ==
  {[BaseJob EXCEPT !.dest = d, !.versioned = v, !.tree = t] :
     d \in Dests, v \in BOOLEAN, t \in Trees}

\* links below a chroot
JobsChroot == {[BaseJob EXCEPT !.chroot = c, !.has = {"chroot"}] : c \in JChroots}

\* copies, plain and masked
JobsCopy ==
  {[BaseJob EXCEPT !.dest = <<"/", "p", "/", "coi1">>, !.copy = c, !.versioned = v] :
     c \in {CopyPlain, CopyProj, CopyProjType, CopyProjLeaves, CopyEmpty,
            CopyMask, CopyMaskHolder, CopyMaskPdf, CopyMaskMeta},
     v \in BOOLEAN}
  \cup {[BaseJob EXCEPT !.dest = <<"/", "p", "/", "coi1">>, !.copy = CopyMaskPdf,
                         !.doctype = "unknown"]}

\* links that notify the trading partner
JobsNotify ==
  {[BaseJob EXCEPT !.dest = <<"/", "p", "/", "coi1">>, !.skipCreatingEmailJobs = FALSE,
                   !.doctype = d, !.chroot = TpChrootOf(tp), !.has = {"chroot"}] :
     d \in DOMAIN Notices \cup {"unknown"}, tp \in Partners}
  \cup {[BaseJob EXCEPT !.dest = <<"/", "p", "/", "coi1">>, !.skipCreatingEmailJobs = FALSE]}

\* a job without a config
JobNoConfig == [BaseJob EXCEPT !.hasConfig = FALSE]

Jobs == JobsLink \cup JobsChroot \cup JobsCopy \cup JobsNotify \cup {JobNoConfig}

\* one worker (the service's concurrency is 1, lines 77-89) takes one job
Init ==
  \E job \in Jobs :
    \E pre \in prefixesOf(Front(parse(job.dest))),
       withPdf \in (IF job.copy.mask.is THEN BOOLEAN ELSE {FALSE}) :
      /\ wk = [w \in {1} |-> idle("job", job, NoCall)]
      /\ initStore(pre, withPdf)

Next ==
  \/ \E w \in Workers : startJob(w)
  \/ \E w \in Workers : linkJob(w)
  \/ \E w \in Workers : getSrc(w)
  \/ \E w \in Workers : getMeta(w)
  \/ \E w \in Workers : getPdfMeta(w)
  \/ \E w \in Workers : mask(w)
  \/ \E w \in Workers : refetch(w)
  \/ \E w \in Workers : pdf(w)
  \/ \E w \in Workers : postCopy(w)
  \/ \E w \in Workers : putMeta(w)
  \/ \E w \in Workers : probe(w)
  \/ \E w \in Workers : post(w)
  \/ \E w \in Workers : put(w)
  \/ \E w \in Workers : getCount(w)
  \/ \E w \in Workers : putCount(w)
  \/ \E w \in Workers : postAuth(w)
  \/ \E w \in Workers : getEmails(w)
  \/ \E w \in Workers : postEmail(w)
  \/ \E w \in Workers : linkEmail(w)

Spec == Init /\ [][Next]_vars

(* ---------------------- the resolver, called directly ------------------ *)

RChroots == {EmptyStr, <<"/", "x">>}
RLinks == {[_id |-> 2], [_id |-> 2, _rev |-> 0]}

InitR ==
  \E chroot \in RChroots, dest \in Dests, tree \in Trees, data \in RLinks :
    \E pre \in prefixesOf(Front(parse(chroot \o dest))) :
      /\ wk = [w \in {1} |->
                 idle("call", BaseJob, [path |-> chroot \o dest, data |-> data,
                                        chroot |-> chroot, tree |-> tree])]
      /\ initStore(pre, FALSE)

NextR ==
  \/ \E w \in Workers : callDirect(w)
  \/ \E w \in Workers : probe(w)
  \/ \E w \in Workers : post(w)
  \/ \E w \in Workers : put(w)

SpecR == InitR /\ [][NextR]_vars

(* ------------------ two instances of the service --------------------- *)

\* the jobs the instances are handed: links of /a/coi1 at /p/coi1 and at
\* /p/coi2
JobsShared ==
  {[BaseJob EXCEPT !.dest = d] : d \in {<<"/", "p", "/", "coi1">>, <<"/", "p", "/", "coi2">>}}

\* Each instance of the service runs one job at a time (concurrency: 1, lines
\* 77-89); two instances watch the same queue and each take a job for the
\* same source, at the same destination or at two beside each other.
InitTwo ==
  \E job \in JobsShared, other \in JobsShared :
    \E pre \in prefixesOf(Front(parse(job.dest))) :
      /\ wk = [w \in {1, 2} |-> idle("job", IF w = 1 THEN job ELSE other, NoCall)]
      /\ initStore(pre, FALSE)

\* an instance takes the job it was handed; the queue hands it no other
takeJob(w) == wk[w].run = 0 /\ startJob(w)

NextTwo ==
  \/ \E w \in Workers : takeJob(w)
  \/ \E w \in Workers : linkJob(w)
  \/ \E w \in Workers : getSrc(w)
  \/ \E w \in Workers : probe(w)
  \/ \E w \in Workers : post(w)
  \/ \E w \in Workers : put(w)
  \/ \E w \in Workers : getCount(w)
  \/ \E w \in Workers : putCount(w)

SpecTwo == InitTwo /\ [][NextTwo]_vars

(* ------------------------------- claims ------------------------------- *)

\* the requests of an execution that were sent from a line of the source
reqs(me, line) == {i \in 1..Len(me.log) : me.log[i].line = line}

depth(path) == Len(parse(path))

\* the handler has returned the job's config
succeeded(w) == wk[w].mode = "job" /\ wk[w].pc = "done"

\* putLinkAndEnsureParent, called directly, has returned
resolved(w) == wk[w].mode = "call" /\ wk[w].pc = "done"

statedDest(job) ==
  IF "chroot" \in job.has THEN normalizeChroot(job.chroot) \o job.dest ELSE job.dest

\* C2: after a successful job the link is at normalize(chroot) + dest when the
\* job has a chroot, and at dest when it has none.
LinkPlacedBelowChroot ==
  \A w \in Workers : succeeded(w) => hasLinkAt(res, statedDest(wk[w].job))

\* the ancestors of the resolver's path that were missing when it was called
missingAtCall(me) ==
  {k \in 1..depth(me.call.path) : k - 1 > me.fea}

\* C3: when putLinkAndEnsureParent returns successfully every proper ancestor
\* of path is a resource, each that was missing has the type the tree gives
\* for it (chroot removed), and the parent holds linkValue under the last key.
ResolverPostcondition ==
  \A w \in Workers :
    resolved(w) =>
      LET c == wk[w].call
      IN /\ \A k \in 1..depth(c.path) :
              LET a == ancestors(c.path)[k]
              IN /\ isResource(res, a)
                 /\ k \in missingAtCall(wk[w]) =>
                      /\ treeOk(c.tree, a, c.chroot)
                      /\ res[resolve(res, a)].type = treeNode(c.tree, a, c.chroot)._type
         /\ hasLinkAt(res, c.path)
         /\ linkAt(res, c.path) = c.data

\* the probes of an execution that were answered with a status of a set
probed(me, statuses) == {i \in reqs(me, 394) : me.log[i].arg \in statuses}

\* C4, as stated: a successful call creates depth(path) -
\* depth(firstExistingAncestor) resources.
CreatesDepthDifference ==
  \A w \in Workers :
    resolved(w) => Cardinality(wk[w].created) = depth(wk[w].call.path) - wk[w].fea

\* C4: a successful call creates one resource for each probe answered 404:
\* depth(path) - depth(firstExistingAncestor) - 1 of them when no probe failed
\* with another status, and never more.
CreatesOnePerMissingAncestor ==
  \A w \in Workers :
    resolved(w) =>
      LET me == wk[w]
          n == depth(me.call.path) - me.fea - 1
      IN /\ Cardinality(me.created) = Cardinality(probed(me, {StatusNotFound}))
         /\ Cardinality(me.created) <= n
         /\ probed(me, ErrStatuses) = {} => Cardinality(me.created) = n

\* a call has returned after making both ancestors of a path of depth 3
CreatedTwoAncestors ==
  \E w \in Workers :
    /\ resolved(w) /\ depth(wk[w].call.path) = 3 /\ wk[w].fea = 0
    /\ Cardinality(wk[w].created) = 2

\* C5: a call that follows a successful call with the same arguments, run
\* against the store the first left, creates no resource and leaves at the
\* destination the link it found there.
SecondRunCreatesNothing ==
  \A w \in Workers :
    (resolved(w) /\ wk[w].run >= 2 /\ wk[w].hist[wk[w].run - 1].ok) =>
      /\ wk[w].created = {}
      /\ reqs(wk[w], 425) = {}
      /\ hasLinkAt(res, wk[w].call.path)
      /\ linkAt(res, wk[w].call.path) = wk[w].before
      /\ wk[w].before = wk[w].call.data

\* a second call has returned after a first that made ancestors
SecondRunDone ==
  \E w \in Workers :
    /\ resolved(w) /\ wk[w].run = 2
    /\ wk[w].hist[1].ok /\ wk[w].hist[1].created # {}

\* C6: after a successful job the link at the destination has a _rev if and
\* only if the job's versioned flag is true, whether the link is to the
\* original, to a plain copy or to a masked copy.
VersionedLinkLaw ==
  \A w \in Workers :
    succeeded(w) =>
      /\ hasLinkAt(res, wk[w].destpath)
      /\ ("_rev" \in DOMAIN linkAt(res, wk[w].destpath)) <=> wk[w].job.versioned
      /\ \A i \in reqs(wk[w], 455) :
           wk[w].log[i].path \o <<"/", wk[w].log[i].arg[1]>> = wk[w].destpath =>
             (("_rev" \in DOMAIN wk[w].log[i].arg[2]) <=> wk[w].job.versioned)

\* a versioned job has linked a masked copy
VersionedCopyLinked ==
  \E w \in Workers :
    /\ succeeded(w) /\ wk[w].job.versioned /\ wk[w].job.copy.mask.is
    /\ linkAt(res, wk[w].destpath) = [_id |-> wk[w].newId, _rev |-> 0]

\* C7: a job with an ancestor that was missing and has no entry, or no type,
\* in the tree does not succeed, and when it fails for it no link has been
\* put (line 455).
MissingTreeEntryFails ==
  \A w \in Workers :
    /\ succeeded(w) =>
         \A k \in missingAtCall(wk[w]) :
           treeOk(wk[w].call.tree, ancestors(wk[w].call.path)[k], wk[w].call.chroot)
    /\ (wk[w].pc = "failed" /\ wk[w].err = "config") => reqs(wk[w], 455) = {}

\* C8: a probe that fails with a status other than 404 fails the job, and the
\* resolver sends no POST and no PUT after it.
ProbeErrorsPropagate ==
  \A w \in Workers :
    \A i \in probed(wk[w], ErrStatuses) :
      /\ wk[w].pc = "failed"
      /\ \A j \in reqs(wk[w], 425) \cup reqs(wk[w], 455) : j < i

\* the tree has no key for the last segment of the pointer but a '*' beside it
hasWildcard(tree, pointer) ==
  /\ parseOk(pointer) /\ parse(pointer) # <<>>
  /\ parse(pointer) \notin DOMAIN tree
  /\ (Front(parse(pointer)) \o <<"*">>) \in DOMAIN tree
  /\ tree[Front(parse(pointer)) \o <<"*">>]._type # NoType

\* C9: when the probe finds a parent missing whose segment the tree has only
\* a '*' entry for, the lookup does not fail.
WildcardGivesType ==
  \A w \in Workers :
    \A i \in probed(wk[w], {StatusNotFound}) :
      hasWildcard(wk[w].call.tree, replaceFirst(wk[w].log[i].path, wk[w].call.chroot)) =>
        ~(i = Len(wk[w].log) /\ wk[w].pc = "failed")

\* C10, as stated: the content posted for a plain copy has no key, at any
\* level, that starts with "_".
PlainCopyNoInternalKey ==
  \A w \in Workers :
    \A i \in reqs(wk[w], 286) :
      \A p \in DOMAIN wk[w].log[i].arg : \A k \in 1..Len(p) : ~isInternal(p[k])

\* C10: the content posted for a plain copy has no top-level key that starts
\* with "_" other than _type, which is the original's type.
PlainCopyTopLevelKeys ==
  \A w \in Workers :
    \A i \in reqs(wk[w], 286) :
      \A p \in DOMAIN wk[w].log[i].arg :
        isInternal(p[1]) =>
          p = <<"_type">> /\ wk[w].log[i].arg[p] = wk[w].orig[<<"_type">>]

\* a plain copy of the whole original has been posted
PlainCopyPosted ==
  \E w \in Workers :
    \E i \in reqs(wk[w], 286) :
      /\ ~wk[w].job.copy.original.is
      /\ {<<"_type">>, <<"holder", "_note">>, <<"holder", "name">>}
           \subseteq DOMAIN wk[w].log[i].arg
      /\ <<"_valid">> \in DOMAIN wk[w].orig

\* the requests of line 286 that post a plain copy, as (worker, index) pairs
copyPosts == UNION {{<<w, i>> : i \in reqs(wk[w], 286)} : w \in Workers}

\* the content a request posted
posted(wi) == wk[wi[1]].log[wi[2]].arg

\* C11, as stated: when copy.original names the paths P, the leaf paths of
\* the content posted are exactly P intersected with the leaf paths of the
\* source.
ProjectionIsIntersection ==
  \A wi \in copyPosts :
    LET me == wk[wi[1]]
    IN me.job.copy.original.is =>
         DOMAIN posted(wi) = me.job.copy.original.paths \cap DOMAIN me.orig

\* C11: when copy.original names the paths P, the leaf paths of the content
\* posted are exactly the leaf paths of the source at or beneath a path of P
\* whose top-level key does not start with "_", _type apart; each keeps the
\* source's value.
ProjectionKeepsSubtrees ==
  \A wi \in copyPosts :
    LET me == wk[wi[1]]
        P == me.job.copy.original.paths
    IN me.job.copy.original.is =>
         /\ DOMAIN posted(wi) =
              {p \in DOMAIN me.orig :
                 /\ p = <<"_type">> \/ ~isInternal(p[1])
                 /\ \E q \in P : isPrefix(q, p)}
         /\ \A p \in DOMAIN posted(wi) : posted(wi)[p] = me.orig[p]

\* a copy has been posted whose projection names a whole branch of the source
ProjectedBranchPosted ==
  \E wi \in copyPosts :
    /\ wk[wi[1]].job.copy.original = Proj({<<"holder">>})
    /\ DOMAIN posted(wi) = {<<"holder", "name">>, <<"holder", "_note">>}

\* C12, as stated: when copy.original is absent or an empty object, the
\* content posted has every field of the source but the internal ones.
EmptyOrAbsentKeepsAll ==
  \A wi \in copyPosts :
    LET me == wk[wi[1]]
        o == me.job.copy.original
    IN (~o.is \/ o.paths = {}) =>
         \A p \in DOMAIN me.orig : ~isInternal(p[1]) => p \in DOMAIN posted(wi)

\* C12: when copy.original is absent the content posted is the source
\* without its top-level keys that start with "_", _type apart; when it is an
\* empty object the content posted is empty.
AbsentKeepsAllEmptyKeepsNone ==
  \A wi \in copyPosts :
    LET me == wk[wi[1]]
        o == me.job.copy.original
    IN /\ ~o.is =>
            /\ DOMAIN posted(wi) =
                 {p \in DOMAIN me.orig : p = <<"_type">> \/ ~isInternal(p[1])}
            /\ \A p \in DOMAIN posted(wi) : posted(wi)[p] = me.orig[p]
       /\ (o.is /\ o.paths = {}) => posted(wi) = EmptyDoc

\* a job has succeeded whose copy.original is an empty object
EmptyProjectionPosted ==
  \E wi \in copyPosts :
    /\ succeeded(wi[1])
    /\ wk[wi[1]].job.copy.original = Proj({})
    /\ posted(wi) = EmptyDoc /\ DOMAIN wk[wi[1]].orig # {}

\* the requests of line 213 to the masking library, as (worker, index) pairs
maskCalls == UNION {{<<w, i>> : i \in reqs(wk[w], 213)} : w \in Workers}

\* C13: the paths handed to the masking library cover every field of the
\* source, at any depth and inside arrays, whose key is one of keys_to_mask
\* (it is a listed path or lies beneath one), and every listed path is a path
\* of the source that ends in one of keys_to_mask.
MaskCoversKeys ==
  \A wi \in maskCalls :
    LET me == wk[wi[1]]
        keys == me.job.copy.mask.keys
        paths == {parse(s) : s \in me.log[wi[2]].arg}
    IN /\ \A q \in prefixes(me.orig) :
            Last(q) \in keys => \E s \in paths : isPrefix(s, q)
       /\ \A s \in paths : s \in prefixes(me.orig) /\ Last(s) \in keys

\* the library has been asked to mask a key inside an array and a nested key
MaskedInsideArray ==
  \E wi \in maskCalls :
    /\ wk[wi[1]].job.copy.mask.keys = {"name"}
    /\ {<<"/", "items", "/", "0", "/", "name">>, <<"/", "holder", "/", "name">>}
         \subseteq wk[wi[1]].log[wi[2]].arg

\* the requests of line 300 that put the copy's metadata, as (worker, index)
metaPuts == UNION {{<<w, i>> : i \in reqs(wk[w], 300)} : w \in Workers}

\* the metadata a request of line 300 put
metaPut(wi) == wk[wi[1]].log[wi[2]].arg[2]

CopyRef == <<"copy", "src", "_ref">>

\* C14: in both copy modes and with any meta projection, the metadata put to
\* the new copy has copy.src._ref equal to the _id of the original, and after
\* a successful job so has the copy's metadata in the store.
ProvenanceRecorded ==
  /\ \A wi \in metaPuts :
       /\ CopyRef \in DOMAIN metaPut(wi)
       /\ metaPut(wi)[CopyRef] = wk[wi[1]].orig[<<"_id">>]
  /\ \A w \in Workers :
       (succeeded(w) /\ wk[w].job.copy.is) =>
         /\ CopyRef \in DOMAIN meta[wk[w].newId]
         /\ meta[wk[w].newId][CopyRef] = wk[w].orig[<<"_id">>]
         /\ wk[w].orig[<<"_id">>] # wk[w].newId

\* a masked copy has recorded the original in its metadata
ProvenanceOfMaskedCopy ==
  \E w \in Workers :
    /\ succeeded(w) /\ wk[w].job.copy.mask.is
    /\ meta[wk[w].newId][CopyRef] = resolve(res, wk[w].job.src)

CopyMasked == <<"copy", "masked">>

\* C15: the metadata the handler puts to a masked copy has copy.masked
\* true, and the metadata it puts to a plain copy has no copy.masked.
MaskedFlagWritten ==
  \A wi \in metaPuts :
    IF wk[wi[1]].job.copy.mask.is
    THEN CopyMasked \in DOMAIN metaPut(wi) /\ metaPut(wi)[CopyMasked] = TRUE
    ELSE CopyMasked \notin DOMAIN metaPut(wi)

\* C16: after a successful copy job the link at the destination names the
\* resource this execution made, which is not the source and is the newid of
\* the config returned; after a successful link job the config returned is
\* the job's config with no newid.
CopyIdentity ==
  \A w \in Workers :
    succeeded(w) =>
      LET me == wk[w]
          r == Last(me.hist).result
      IN IF me.job.copy.is
         THEN /\ linkAt(res, me.destpath)._id = me.newId
              /\ me.newId \in DOMAIN res
              /\ me.startId <= me.newId /\ me.newId < nextId
              /\ reqs(me, 213) \cup reqs(me, 286) # {}
              /\ me.newId # me.orig[<<"_id">>]
              /\ me.newId # resolve(res, me.job.src)
              /\ r.newid = me.newId
         ELSE r.newid = NotFound /\ r.config = me.job

\* a second execution of a copy job has linked a copy of its own
SecondCopyLinked ==
  \E w \in Workers :
    /\ succeeded(w) /\ wk[w].job.copy.is /\ wk[w].run = 2
    /\ wk[w].hist[1].ok /\ wk[w].hist[1].newId # wk[w].newId
    /\ Last(wk[w].hist).result.newid = wk[w].newId

\* makeAndPostMaskedPdf has returned the id of a PDF and the job succeeded
pdfMade(w) ==
  succeeded(w) /\ wk[w].job.copy.mask.is /\ wk[w].job.copy.mask.pdf /\ wk[w].pdfId # NotFound

PdfRef == <<"vdoc", "pdf", "_id">>

\* C17: after a successful masked copy with generate_pdf whose rendering
\* returned a PDF, the copy's metadata has vdoc.pdf._id equal to the id of
\* the PDF resource this execution uploaded.
PdfAttached ==
  \A w \in Workers :
    pdfMade(w) =>
      LET me == wk[w]
      IN /\ PdfRef \in DOMAIN meta[me.newId]
         /\ meta[me.newId][PdfRef] = me.pdfId
         /\ me.pdfId \in DOMAIN res /\ res[me.pdfId].type = "application/pdf"
         /\ me.startId <= me.pdfId /\ me.pdfId < nextId
         /\ reqs(me, 238) # {}

\* a masked copy of a source that had a PDF has its own PDF, under the
\* original's filename
PdfOfMaskedCopy ==
  \E w \in Workers :
    /\ pdfMade(w)
    /\ meta[wk[w].pdfId] = leaf(<<"filename">>, <<"MASKED-", "coi.pdf">>)
    /\ meta[wk[w].newId][PdfRef] = wk[w].pdfId

\* C18, as stated: after such a job the PDF's own metadata refers to the
\* masked copy.
PdfMetaRefersToCopy ==
  \A w \in Workers :
    pdfMade(w) =>
      \E p \in DOMAIN meta[wk[w].pdfId] :
        Last(p) \in {"_id", "_ref"} /\ meta[wk[w].pdfId][p] = wk[w].newId

\* C18: after such a job the copy's metadata refers to the PDF; the PDF's
\* metadata holds its filename only, and the PDF refers to the masked copy
\* by the link in its content.
PdfRefersToCopyInContent ==
  \A w \in Workers :
    pdfMade(w) =>
      LET me == wk[w]
      IN /\ PdfRef \in DOMAIN meta[me.newId] /\ meta[me.newId][PdfRef] = me.pdfId
         /\ DOMAIN meta[me.pdfId] = {<<"filename">>}
         /\ <<"masked-resource-url">> \in DOMAIN res[me.pdfId].doc
         /\ res[me.pdfId].doc[<<"masked-resource-url">>] = me.newId

\* a PDF with a generated filename carries the link to its masked copy
PdfCarriesLink ==
  \E w \in Workers :
    /\ pdfMade(w) /\ wk[w].pdfFilename = EmptyStr
    /\ res[wk[w].pdfId].doc = leaf(<<"masked-resource-url">>, wk[w].newId)

\* the doctypes the switch of createEmailJobs has a case for
KnownDoctypes == {"cois", "letters-of-guarantee", "fsqa-certificates", "fsqa-audits"}

\* C19: a job with any other doctype that does not skip the notification
\* never succeeds and never asks for an address list, posts an email job or
\* links one into the queue; when the notification has thrown, the link put
\* earlier in the execution is still at the destination.
UnknownDoctypeFailsNotification ==
  \A w \in Workers :
    LET me == wk[w]
    IN (me.mode = "job" /\ me.job.hasConfig /\ ~me.job.skipCreatingEmailJobs
          /\ me.job.doctype \notin KnownDoctypes) =>
         /\ me.pc \notin {"done", "getemails", "postemail", "linkemail"}
         /\ reqs(me, 503) = {} /\ reqs(me, 541) = {} /\ reqs(me, 570) = {}
         /\ emails = {}
         /\ me.pc = "postauth" =>
              hasLinkAt(res, me.destpath) /\ linkAt(res, me.destpath) = me.srclink
         /\ (me.pc = "failed" /\ me.err = "doctype") =>
              /\ reqs(me, 485) # {}
              /\ hasLinkAt(res, me.destpath)
              /\ linkAt(res, me.destpath) = me.srclink

\* the notification of a job with an unknown doctype has thrown after the
\* link was placed and the authorization posted
UnknownDoctypeThrown ==
  \E w \in Workers :
    /\ wk[w].pc = "failed" /\ wk[w].err = "doctype"
    /\ wk[w].job.doctype = "unknown"
    /\ hasLinkAt(res, wk[w].destpath) /\ auths # {}

\* the partner a chroot of shape .../trading-partners/T/... names
partnerIn(chroot, tp) ==
  \E k \in 1..(Len(chroot) - 3) :
    SubSeq(chroot, k, k + 3) = <<"trading-partners", "/", tp, "/">>

\* the list of addresses a doctype is notified on
listFor(doctype) ==
  IF doctype \in {"cois", "letters-of-guarantee"} THEN "coi-emails" ELSE "fsqa-emails"

\* C20: the recipients of every email job posted are the addresses of the
\* list of the job's doctype (coi-emails or fsqa-emails) of the partner the
\* job's chroot names, and that list is the one the handler asked the store for.
RecipientsByDoctype ==
  \A w \in Workers :
    \A i \in reqs(wk[w], 541) :
      LET me == wk[w]
          mail == me.log[i].arg
      IN \E tp \in Partners :
           /\ partnerIn(me.job.chroot, tp)
           /\ mail.to = emailsOf(tp, listFor(me.job.doctype))
           /\ \E g \in reqs(me, 503) :
                /\ g < i
                /\ me.log[g].path =
                     <<"/", "bookmarks", "/", "trellisfw", "/", "trading-partners", "/",
                       tp, "/", listFor(me.job.doctype)>>
           /\ me.pc = "done" => \E m \in emails : m.to = mail.to /\ m.token = me.usertoken

\* partner T2 has been notified of an FSQA audit
AuditNoticeQueued ==
  \E w \in Workers :
    /\ succeeded(w) /\ wk[w].job.doctype = "fsqa-audits"
    /\ partnerIn(wk[w].job.chroot, "T2")
    /\ \E m \in emails : m.linked /\ m.to = emailsOf("T2", "fsqa-emails")

\* C21: with one worker, a job that has succeeded has put the share count
\* once, one above the count the source had when the job began (0 when it
\* had none), and that is the count the source has now.
ShareCountRaisedByOne ==
  \A w \in Workers :
    succeeded(w) =>
      LET me == wk[w]
      IN /\ countAt(res, meta, me.job.src) = me.countBefore + 1
         /\ Cardinality(reqs(me, 356)) = 1
         /\ \A i \in reqs(me, 356) : me.log[i].arg = me.countBefore + 1

\* a source without a count has been shared twice, one job after the other
SharedTwiceInTurn ==
  \E w \in Workers :
    /\ succeeded(w) /\ wk[w].run = 2 /\ wk[w].hist[1].ok
    /\ MetaCount \notin DOMAIN SrcMeta(FALSE)
    /\ wk[w].countBefore = 1
    /\ countAt(res, meta, wk[w].job.src) = 2

\* both instances have run the job once and succeeded
bothSucceeded == \A w \in Workers : succeeded(w) /\ wk[w].run = 1

\* C22: when two executions for the same source have both succeeded, the share
\* count is one above the count of the execution that put last; it is two
\* above the count before both when one read what the other had put, and one
\* above it when both read the count before either put.
CountIsLastWriters ==
  (Cardinality(Workers) = 2 /\ bothSucceeded) =>
    LET src == wk[1].job.src
        reads == {wk[w].shareCount : w \in Workers}
        c0 == CHOOSE c \in reads : \A d \in reads : c <= d
    IN /\ \A w \in Workers : wk[w].job.src = src
       /\ c0 = shareCountOf(SrcMeta(FALSE))
       /\ countAt(res, meta, src) = c0 + Cardinality(reads)
       /\ \E w \in Workers : countAt(res, meta, src) = wk[w].shareCount + 1

\* the lost update: both executions have succeeded and the count is one
\* above what it was, not two
LostUpdate ==
  /\ Cardinality(Workers) = 2 /\ bothSucceeded
  /\ \A w \in Workers : wk[w].countBefore = 0 /\ wk[w].shareCount = 0
  /\ countAt(res, meta, wk[1].job.src) = 1

\* the second of two executions of a copy job, both successful
reran(w) ==
  /\ succeeded(w) /\ wk[w].job.copy.is
  /\ wk[w].run = 2 /\ wk[w].hist[1].ok

\* C23: when a copy job has run twice in a row, each run has made a copy of
\* its own, the two with different ids; the second run has made no ancestor
\* (no POST of line 425: what it made is its copy and at most a PDF of it),
\* and the link at the destination names the second copy.
RerunCopiesAgain ==
  \A w \in Workers :
    reran(w) =>
      LET me == wk[w]
          first == me.hist[1].newId
      IN /\ first # me.newId
         /\ {first, me.newId} \subseteq DOMAIN res
         /\ first < me.startId /\ me.startId <= me.newId
         /\ me.created = {} /\ reqs(me, 425) = {}
         /\ nextId - me.startId
              <= Cardinality(reqs(me, 213) \cup reqs(me, 286) \cup reqs(me, 238))
         /\ hasLinkAt(res, me.destpath)
         /\ linkAt(res, me.destpath)._id = me.newId

\* a copy job has run twice; the first run made the destination's parent,
\* the second found it
RerunFoundAncestors ==
  \E w \in Workers :
    /\ reran(w) /\ wk[w].hist[1].created # {}
    /\ wk[w].before._id = wk[w].hist[1].newId
    /\ linkAt(res, wk[w].destpath)._id = wk[w].newId

\* makeAndPostMaskedPdf was called and returned no id
pdfFailed(me) == reqs(me, 238) # {} /\ me.pdfId = NotFound

\* C24: when makeAndPostMaskedPdf returns no id the handler goes on: the job
\* does not fail at that call, the next request is the PUT of the copy's
\* metadata (line 300), which names no PDF, and a job that then succeeds
\* has written that metadata and placed the link to the copy.
PdfIsBestEffort ==
  \A w \in Workers :
    LET me == wk[w]
    IN pdfFailed(me) =>
         /\ me.err # "pdf"
         /\ \A i \in reqs(me, 238) :
              /\ ~(me.pc = "failed" /\ i = Len(me.log))
              /\ i = Len(me.log) => me.pc = "putmeta"
              /\ i < Len(me.log) => me.log[i + 1].line = 300
         /\ \A i \in reqs(me, 300) : PdfRef \notin DOMAIN me.log[i].arg[2]
         /\ succeeded(w) =>
              /\ reqs(me, 300) # {}
              /\ CopyRef \in DOMAIN meta[me.newId]
              /\ PdfRef \notin DOMAIN meta[me.newId]
              /\ hasLinkAt(res, me.destpath)
              /\ linkAt(res, me.destpath)._id = me.newId

\* the upload of the PDF failed and the job succeeded all the same
PdfFailedJobDone ==
  \E w \in Workers :
    /\ succeeded(w) /\ pdfFailed(wk[w]) /\ wk[w].sourceOk /\ faults = 1
    /\ wk[w].job.copy.mask.pdf
    /\ linkAt(res, wk[w].destpath)._id = wk[w].newId

\* the execution is over: the handler returned or threw
ended(w) == wk[w].pc \in {"done", "failed"}

\* the email jobs an execution posted
mailsOf(me) == {m \in emails : m.token = me.usertoken}

\* a handler that has returned has placed the link and, unless the job skips
\* it, posted one email job and linked it into the queue
returnedAfterLink ==
  \A w \in Workers :
    succeeded(w) =>
      LET me == wk[w]
      IN /\ reqs(me, 455) # {}
         /\ hasLinkAt(res, me.destpath)
         /\ linkAt(res, me.destpath) = me.srclink
         /\ IF me.job.skipCreatingEmailJobs
            THEN reqs(me, 541) = {} /\ reqs(me, 570) = {} /\ me.usertoken = ""
            ELSE /\ Cardinality(reqs(me, 541)) = 1 /\ Cardinality(reqs(me, 570)) = 1
                 /\ Cardinality(mailsOf(me)) = 1
                 /\ \A m \in mailsOf(me) : m.linked

\* the requests the handler sends outside the resolver (lines 99 to 300 and
\* 331 to 570, each at most once), and those the resolver sends for a path:
\* a probe and a PUT for each segment, a POST for each but the last
requestsAtMost(path) == 14 + (3 * depth(path) - 1)

\* an execution that is under way waits for the answer of one request; the
\* step that answers it adds that request to the execution's log, and the
\* log never outgrows the requests the handler can send
oneRequestPerStep ==
  \A w \in Workers :
    (~ended(w) /\ wk[w].pc # "idle") =>
      /\ wk'[w].run = wk[w].run
      /\ Len(wk'[w].log) = Len(wk[w].log) + 1
      /\ Len(wk'[w].log) <= requestsAtMost(wk[w].job.dest)
      /\ wk'[w].pc = "done" =>
           wk[w].pc \in {"putcount", "linkemail"} /\ reqs(wk'[w], 455) # {}

\* C25: an execution of the handler ends, returned or thrown, after a
\* bounded number of requests, each step sending one; one that has returned
\* has placed the link at the destination and, unless skipCreatingEmailJobs
\* is set, has posted exactly one email job and linked it into the
\* abalonemail queue.
JobLifecycle == []returnedAfterLink /\ [][oneRequestPerStep]_vars

\* a job has run twice and each run has queued an email job of its own
NotifiedTwice ==
  \E w \in Workers :
    /\ succeeded(w) /\ wk[w].run = 2 /\ wk[w].hist[1].ok
    /\ ~wk[w].job.skipCreatingEmailJobs
    /\ Cardinality({m \in emails : m.linked}) = 2
    /\ Cardinality(mailsOf(wk[w])) = 1

\* the path a PUT of the resolver writes a link at: the path it is sent to
\* and the one key of its body
linkedAt(req) == req.path \o <<"/", req.arg[1]>>

givenTo(f) == f.path \o <<"/", f.key>>

\* the calls of putLinkAndEnsureParent under way: the first was given the
\* destination, each other the parent of the path its caller was given, one
\* segment shorter, and there are no more of them than the path has segments
callsDescend ==
  \A w \in Workers :
    LET me == wk[w]
        d == depth(me.call.path)
    IN /\ me.pc = "resolve" =>
            /\ me.stack # <<>> /\ Len(me.stack) <= d
            /\ givenTo(me.stack[1]) = me.call.path
            /\ \A k \in 2..Len(me.stack) :
                 /\ givenTo(me.stack[k]) = me.stack[k - 1].path
                 /\ depth(givenTo(me.stack[k])) = depth(givenTo(me.stack[k - 1])) - 1
       /\ me.mode = "call" =>
            /\ Cardinality(reqs(me, 394)) <= d
            /\ Cardinality(reqs(me, 425)) <= d - 1
            /\ Len(me.log) <= 3 * d - 1
            /\ me.pc = "done" => hasLinkAt(res, me.call.path)

\* a step of a call under way sends one request, and a call is one probe
callAdvances ==
  \A w \in Workers :
    wk[w].pc = "resolve" =>
      /\ Len(wk'[w].log) = Len(wk[w].log) + 1
      /\ wk'[w].pc \in {"resolve", "done", "failed", "getcount"}
      /\ Len(wk'[w].stack) > Len(wk[w].stack) =>
           /\ Len(wk'[w].stack) = Len(wk[w].stack) + 1
           /\ Last(wk'[w].log).line = 425

\* C27: a call of putLinkAndEnsureParent on a path whose root exists ends,
\* with the link placed or with an error, after at most depth(path) calls in
\* all, each recursive call given a path one segment shorter than its
\* caller's; every step of it sends one of at most 3 * depth(path) - 1 requests.
ResolverTerminates == []callsDescend /\ [][callAdvances]_vars

\* a call on a path of three segments has recursed twice, down to the root,
\* and returned
RecursedToRoot ==
  \E w \in Workers :
    /\ resolved(w) /\ depth(wk[w].call.path) = 3
    /\ Cardinality(reqs(wk[w], 394)) = 3
    /\ \E i \in reqs(wk[w], 394) : wk[w].log[i].path = EmptyStr
    /\ Len(wk[w].log) = 8

\* C28: the content posted for a plain copy has the _type of the original,
\* with a projection `original` and without one.
CopyKeepsType ==
  \A w \in Workers :
    \A i \in reqs(wk[w], 286) :
      /\ <<"_type">> \in DOMAIN wk[w].log[i].arg
      /\ wk[w].log[i].arg[<<"_type">>] = wk[w].orig[<<"_type">>]

\* the execution has got as far as calling the resolver
linking(me) ==
  me.pc \in {"resolve", "getcount", "putcount", "postauth", "getemails", "postemail",
             "linkemail", "done"}
    \/ reqs(me, 394) # {}

\* C29: an execution of a copy job, plain or masked, puts the copy's _meta
\* (line 300) at most once, after the request that made the copy (line 213
\* or 286) and for the id that request gave, and exactly once before any
\* request of the resolver; an execution of a link job never puts it.
MetaPutOnceBeforeLink ==
  \A w \in Workers :
    LET me == wk[w]
        made == reqs(me, 213) \cup reqs(me, 286)
        resolving == reqs(me, 394) \cup reqs(me, 425) \cup reqs(me, 455)
    IN me.mode = "job" =>
         IF me.job.copy.is
         THEN /\ Cardinality(reqs(me, 300)) <= 1
              /\ \A i \in reqs(me, 300) :
                   /\ me.log[i].op = "PUT"
                   /\ me.log[i].arg[1] = me.newId /\ me.newId # NotFound
                   /\ me.startId <= me.newId
                   /\ made # {} /\ \A j \in made : j < i
                   /\ \A j \in resolving : i < j
              /\ linking(me) => Cardinality(reqs(me, 300)) = 1
              /\ succeeded(w) => linkAt(res, me.destpath)._id = me.newId
         ELSE reqs(me, 300) = {}

\* a masked copy with a PDF has been linked: the mask, the PDF, the one PUT
\* of the metadata and then the resolver's requests
MetaPutThenLinked ==
  \E w \in Workers :
    /\ succeeded(w) /\ wk[w].job.copy.mask.pdf
    /\ \E i \in reqs(wk[w], 300) :
         /\ \E j \in reqs(wk[w], 238) : j < i
         /\ \E j \in reqs(wk[w], 455) : i < j
         /\ wk[w].log[i].arg[1] = wk[w].newId

\* the PDF of the original that the source's metadata links (NotFound: none)
origPdf(me) ==
  LET id == me.orig[<<"_id">>]
  IN IF id \in DOMAIN meta /\ PdfRef \in DOMAIN meta[id] THEN meta[id][PdfRef] ELSE NotFound

\* C30: whatever the source's metadata and the `meta` projection, the
\* metadata the handler puts to a masked copy has no vdoc.pdf link to the PDF
\* of the original: it has no vdoc.pdf._id, or that of the PDF this execution
\* made of the masked copy; nor has the copy's metadata in the store after
\* the job.
MaskedCopyDropsPdf ==
  \A w \in Workers :
    LET me == wk[w]
    IN me.job.copy.mask.is =>
         /\ \A i \in reqs(me, 300) :
              LET m == me.log[i].arg[2]
              IN PdfRef \in DOMAIN m =>
                   /\ m[PdfRef] # origPdf(me)
                   /\ m[PdfRef] = me.pdfId /\ me.startId <= me.pdfId
         /\ succeeded(w) =>
              (PdfRef \in DOMAIN meta[me.newId] => meta[me.newId][PdfRef] # origPdf(me))

\* a masked copy of a source with a PDF, its projection keeping vdoc.pdf,
\* has been linked with no PDF in its metadata
UnmaskedPdfDropped ==
  \E w \in Workers :
    /\ succeeded(w) /\ wk[w].job.copy = CopyMaskMeta
    /\ origPdf(wk[w]) # NotFound
    /\ reqs(wk[w], 188) # {}
    /\ meta[wk[w].newId] = leaf(<<"stats">>, "s") @@ leaf(CopyRef, wk[w].orig[<<"_id">>])

\* the requests of an execution that write to the store
writes(me) == {i \in 1..Len(me.log) : me.log[i].op \in {"PUT", "POST", "MASK", "PDF"}}

\* C31: an execution of a job without a config fails with 'Job has no
\* config' and has sent no request that writes to the store.
NoConfigFailsBeforeWrite ==
  \A w \in Workers :
    (wk[w].mode = "job" /\ ~wk[w].job.hasConfig) =>
      /\ writes(wk[w]) = {}
      /\ ended(w) => (wk[w].pc = "failed" /\ wk[w].err = "Job has no config")

\* every email job posted carries the token its execution posted to
\* /authorizations before, for the job's user, and no two email jobs carry
\* the same token
tokensAgree ==
  /\ \A w \in Workers :
       \A i \in reqs(wk[w], 541) :
         LET me == wk[w]
             mail == me.log[i].arg
         IN /\ mail.token = me.usertoken /\ mail.token # ""
            /\ \E a \in reqs(me, 485) : a < i /\ me.log[a].arg = mail.token
            /\ [token |-> mail.token, user |-> me.job.user] \in auths
  /\ \A m \in emails :
       /\ \E a \in auths : a.token = m.token
       /\ \A n \in emails : n.token = m.token => n = m

\* a POST to /authorizations adds an authorization that was not there
tokenIsFresh == auths' # auths => Cardinality(auths') = Cardinality(auths) + 1

\* C32: the token in the link of an email job is the token the same
\* execution posted to /authorizations for the job's user, and every
\* execution posts a token no execution posted before.
TokenConsistency == []tokensAgree /\ [][tokenIsFresh]_vars

\* two executions of a job have each posted a token and queued an email job
\* that carries it
TwoTokensTwoMails ==
  \E w \in Workers :
    /\ succeeded(w) /\ wk[w].run = 2
    /\ Cardinality(auths) = 2 /\ Cardinality(emails) = 2
    /\ {m.token : m \in emails} = {a.token : a \in auths}
    /\ \E m \in emails : m.token = wk[w].usertoken /\ m.linked

\* every request of the first set was sent before every one of the second
allBefore(first, second) == \A i \in first : \A j \in second : i < j

\* C33: in every execution the requests of the resolver (lines 394 to 455)
\* come before the read and the PUT of the share count (331, 356), and
\* these before the POST of the authorization (485), the POST of the email
\* job (541) and its link into the queue (570); when the count is put the
\* link is at the destination, and no authorization or email job is posted
\* by an execution that has not put the link and the count.
PipelineOrder ==
  \A w \in Workers :
    LET me == wk[w]
        linkReqs == reqs(me, 394) \cup reqs(me, 425) \cup reqs(me, 455)
        countReqs == reqs(me, 331) \cup reqs(me, 356)
        mailReqs == reqs(me, 485) \cup reqs(me, 503) \cup reqs(me, 541) \cup reqs(me, 570)
    IN me.mode = "job" =>
         /\ allBefore(linkReqs, countReqs)
         /\ allBefore(countReqs, mailReqs)
         /\ allBefore(reqs(me, 485), reqs(me, 541))
         /\ allBefore(reqs(me, 541), reqs(me, 570))
         /\ countReqs # {} =>
              /\ reqs(me, 455) # {}
              /\ hasLinkAt(res, me.destpath) /\ linkAt(res, me.destpath) = me.srclink
         /\ mailReqs # {} =>
              /\ reqs(me, 356) # {}
              /\ countAt(res, meta, me.job.src) = me.shareCount + 1
              /\ hasLinkAt(res, me.destpath)

\* a job has linked, counted and notified, in that order
LinkedCountedNotified ==
  \E w \in Workers :
    /\ succeeded(w) /\ ~wk[w].job.skipCreatingEmailJobs
    /\ \E l \in reqs(wk[w], 455), c \in reqs(wk[w], 356), a \in reqs(wk[w], 485),
          m \in reqs(wk[w], 541) : l < c /\ c < a /\ a < m

\* C34: when the store fails the GET of the newly masked resource (line
\* 222), the execution fails there: it sends no further request, places no
\* link and does not succeed.
RefetchFailureIsFatal ==
  \A w \in Workers :
    LET me == wk[w]
    IN (me.job.copy.mask.is /\ reqs(me, 222) # {} /\ ~me.sourceOk) =>
         /\ me.pc = "failed"
         /\ \A i \in reqs(me, 222) : i = Len(me.log)
         /\ reqs(me, 455) = {}

\* what a document holds outside services/trellis-shares
outsideService(m) ==
  restrict(m, {p \in DOMAIN m : ~isPrefix(<<"services", "trellis-shares">>, p)})

\* the paths of a document that a step has written
written(before, after) ==
  {p \in DOMAIN after : p \notin DOMAIN before \/ after[p] # before[p]}
    \cup (DOMAIN before \ DOMAIN after)

\* a step leaves the source's resource and type as they were and writes, in
\* its _meta, only the reference to the job and the share count
sourceKept ==
  \A w \in Workers :
    LET id == resolve(res, wk[w].job.src)
    IN (wk[w].mode = "job" /\ id # NotFound) =>
         /\ resolve(res', wk[w].job.src) = id
         /\ res'[id] = res[id]
         /\ outsideService(meta'[id]) = outsideService(meta[id])
         /\ \A p \in written(meta[id], meta'[id]) :
              \/ p = <<"services", "trellis-shares", "share-count">>
              \/ p = <<"services", "trellis-shares", "jobs", jobId(w, wk[w].run), "_ref">>

\* C35: in link, plain-copy and masked-copy mode alike, no step of an
\* execution changes the source's content or type, or anything of its _meta
\* outside services/trellis-shares; what it writes there is the reference to
\* the job and the share count.
SourceIsReadOnly == [][sourceKept]_vars

\* a masked copy with a PDF has been linked and the source is what it was,
\* but for the job and the count under services/trellis-shares
SourceUntouchedByMask ==
  \E w \in Workers :
    LET id == resolve(res, wk[w].job.src)
    IN /\ succeeded(w) /\ wk[w].job.copy.mask.pdf /\ wk[w].pdfId # NotFound
       /\ res[id].doc = SrcDoc
       /\ outsideService(meta[id]) = SrcMeta(TRUE)
       /\ DOMAIN meta[id] \ DOMAIN SrcMeta(TRUE)
            = {<<"services", "trellis-shares", "share-count">>,
               <<"services", "trellis-shares", "jobs", jobId(w, 1), "_ref">>}

\* the link an execution put is at its destination
linked(w) ==
  hasLinkAt(res, wk[w].destpath) /\ linkAt(res, wk[w].destpath) = wk[w].srclink

\* the parent of an execution's destination
parentOf(w) == compile(Front(parse(wk[w].destpath)))

\* two executions with different destinations under one parent, which was
\* missing when they began, have both succeeded
besideDone ==
  /\ Cardinality(Workers) = 2 /\ bothSucceeded
  /\ wk[1].destpath # wk[2].destpath /\ parentOf(1) = parentOf(2)
  /\ \A w \in Workers : wk[w].startId = 4

heldOffPath(w) ==
  LET key == Last(parse(wk[w].destpath))
      at == locate(res, parentOf(w))
  IN \E id \in DOMAIN res :
       \E p \in DOMAIN res[id].doc :
         /\ Len(p) >= 2 /\ p[Len(p)] = "_id" /\ p[Len(p) - 1] = key
         /\ res[id].doc[p] = wk[w].srclink._id
         /\ <<id, Front(Front(p))>> # <<at.id, at.at>>

NoTokenForUnknownDoctype ==
  \A w \in Workers :
    LET me == wk[w]
    IN (me.pc = "failed" /\ me.err = "doctype") =>
         /\ reqs(me, 485) = {}
         /\ \A a \in auths : a.token # me.usertoken

\* the links a metadata document holds at vdoc.pdf or below it
pdfLinks(m) ==
  {p \in DOMAIN m : Len(p) >= 3 /\ p[1] = "vdoc" /\ p[2] = "pdf" /\ p[Len(p)] = "_id"}

\* C38: in a masked copy with generate_pdf, when makeAndPostMaskedPdf has
\* returned no id, the metadata the handler puts to the copy (line 300) has
\* no link at vdoc.pdf (what it has there is an empty object), and the
\* metadata of the copy in the store has none either.
FailedPdfLeavesNoLink ==
  \A w \in Workers :
    LET me == wk[w]
    IN (me.job.copy.mask.is /\ me.job.copy.mask.pdf /\ pdfFailed(me)) =>
         /\ pdfLinks(me.mmeta) = {}
         /\ \A i \in reqs(me, 300) :
              LET m == me.log[i].arg[2]
              IN /\ pdfLinks(m) = {}
                 /\ <<"vdoc", "pdf">> \in DOMAIN m /\ m[<<"vdoc", "pdf">>] = EmptyObj
         /\ me.newId \in DOMAIN meta => pdfLinks(meta[me.newId]) = {}

\* makeAndPostMaskedPdf returned no id and the handler went on: the metadata
\* of the copy is in the store, with an empty object at vdoc.pdf
PdfSkippedMetaWritten ==
  \E w \in Workers :
    /\ wk[w].job.copy = CopyMaskPdf /\ pdfFailed(wk[w])
    /\ reqs(wk[w], 300) # {} /\ wk[w].pc # "failed"
    /\ wk[w].newId \in DOMAIN meta
    /\ <<"vdoc", "pdf">> \in DOMAIN meta[wk[w].newId]
    /\ meta[wk[w].newId][<<"vdoc", "pdf">>] = EmptyObj

\* C39, as stated: when an execution has ended in error, the share-count of
\* the source is what it was when the execution began (so that executions
\* in turn leave the count at the number of those that succeeded).
FailureKeepsShareCount ==
  \A w \in Workers :
    LET me == wk[w]
    IN (me.mode = "job" /\ me.pc = "failed") =>
         countAt(res, meta, me.job.src) = me.countBefore

====
